---------------------------- MODULE Spec2Model ----------------------------
(***************************************************************************)
(* Model of the stake classification and tracking engine of alphatoken-bot *)
(* (src/monitoring_mempool.py, src/monitoring_block_advanced.py) and of    *)
(* its .env-driven trader (src/alpha_manual_trading.py).                   *)
(*                                                                         *)
(* Python values are tagged tuples:                                        *)
(*   <<"None">>            None                                            *)
(*   <<"int", n>>          an int                                          *)
(*   <<"str", s>>          a str                                           *)
(*   <<"tuple", a, b>>     a 2-tuple of ints                               *)
(*   <<"list", s>>         a list of ints (s a sequence)                   *)
(*   <<"dict", k, v>>      a one-key dict {k: v}                           *)
(*   <<"calls", s>>        a list of call dicts                            *)
(*   <<"call", c>>         one call dict                                   *)
(*   <<"bytes", s>>        a byte string / list of byte values             *)
(* A call dict is [call_module, call_function, call_args]; a call argument *)
(* is [dict, name, value]: dict = FALSE stands for an argument that is a   *)
(* bare value and not a {name, value} dict.                                *)
(***************************************************************************)
EXTENDS Integers, Sequences, FiniteSets, TLC

VARIABLES
    \* MempoolMonitor (monitoring_mempool.py)
    mempool_txs,      \* self.mempool_txs: ext_hex -> [parsed, time]
    last_block_data,  \* self.last_block_data
    last_block,       \* local of monitor()
    current_block,    \* local of monitor()
    pc,               \* position of monitor() inside one poll cycle
    now,              \* datetime.now(), counted in poll cycles
    \* the node and the chain the monitor polls
    chain_head,       \* number of the chain's head block
    chain_blocks,     \* block number -> the block (ext hashes, extrinsics, events)
    node_pending,     \* what author_pendingExtrinsics returns
    \* history of the current cycle and of the run
    cycle_start_txs,  \* mempool_txs when the cycle began
    fetch_failed,     \* the fetches of the current cycle that raised
    removed,          \* local `removed` of the cycle: what line 1177 deleted
    pending_fetched,  \* set(pending) of the current cycle, {} before the fetch
    \* the pure functions: their argument and their result
    fn,               \* which function the input was drawn for
    arg_in,           \* the argument
    result,           \* <<"unset">> before the call, <<"ret", value>> after
    \* AlphaMonitor (alpha_manual_trading.py)
    env,                    \* the .env file: key -> text of its value
    env_changed,            \* st_mtime of .env differs from self.last_env_mtime
    previous_stake_netuid,  \* self.previous_stake_netuid
    executed_stakes,        \* self.executed_stakes
    executed_unstakes,      \* self.executed_unstakes
    edits,                  \* how many times .env has been written
    bought,                 \* <<netuid, amount>> of every buy that succeeded, in order
    sold,                   \* <<netuid, amount>> of every unstake that succeeded, in order
    last_call,              \* what the last process_changes did
    \* StakeTracker and main (index.py)
    validator_hotkey,       \* self.validator_hotkey
    original_stake_tao,     \* self.original_stake_tao, in 1/10000 TAO
    entry_price,            \* self.entry_price
    has_stake,              \* self.has_stake
    tracker_pc,             \* position of main / the trading loop / the operation
    caller,                 \* who awaits stake_initial_amount
    attempt,                \* local `attempt` of unstake_all
    unstake_result,         \* local `result` of unstake_all
    submissions,            \* outcomes of the unstake requests of the retry loop
    last_return             \* the last finished operation and what it returned

None == <<"None">>
PyInt(n) == <<"int", n>>
PyStr(s) == <<"str", s>>
PyTuple(a, b) == <<"tuple", a, b>>
PyList(s) == <<"list", s>>
PyDict(k, v) == <<"dict", k, v>>
IsInt(v) == v[1] = "int"
IsStr(v) == v[1] = "str"
IsTuple2(v) == v[1] = "tuple"
IsPyDict(v) == v[1] = "dict"

Min(a, b) == IF a <= b THEN a ELSE b

(***************************************************************************)
(* str methods the code uses: `pat in s`, s.lower(), int(s).               *)
(***************************************************************************)
Contains(s, pat) ==
    \E i \in 1..(Len(s) - Len(pat) + 1) : SubSeq(s, i, i + Len(pat) - 1) = pat

ContainsAny(s, pats) == \E p \in pats : Contains(s, p)

UpperChars == <<"A","B","C","D","E","F","G","H","I","J","K","L","M",
                "N","O","P","Q","R","S","T","U","V","W","X","Y","Z">>
LowerChars == <<"a","b","c","d","e","f","g","h","i","j","k","l","m",
                "n","o","p","q","r","s","t","u","v","w","x","y","z">>

LowerChar(c) ==
    IF \E i \in 1..Len(UpperChars) : UpperChars[i] = c
    THEN LowerChars[CHOOSE i \in 1..Len(UpperChars) : UpperChars[i] = c]
    ELSE c

RECURSIVE Lower(_)
Lower(s) ==
    IF Len(s) = 0 THEN ""
    ELSE LowerChar(SubSeq(s, 1, 1)) \o Lower(SubSeq(s, 2, Len(s)))

Digits == <<"0","1","2","3","4","5","6","7","8","9">>
IsDigit(c) == \E i \in 1..10 : Digits[i] = c
DigitVal(c) == (CHOOSE i \in 1..10 : Digits[i] = c) - 1

RECURSIVE DigitsValue(_, _)
DigitsValue(s, acc) ==
    IF Len(s) = 0 THEN acc
    ELSE DigitsValue(SubSeq(s, 2, Len(s)), acc * 10 + DigitVal(SubSeq(s, 1, 1)))

AllDigits(s) == Len(s) > 0 /\ \A i \in 1..Len(s) : IsDigit(SubSeq(s, i, i))

\* int(x) for x an int or a str; None stands for ValueError/TypeError
IntOf(v) ==
    IF IsInt(v) THEN v
    ELSE IF IsStr(v) /\ AllDigits(v[2]) THEN PyInt(DigitsValue(v[2], 0))
    ELSE IF IsStr(v) /\ Len(v[2]) > 1 /\ SubSeq(v[2], 1, 1) = "-"
            /\ AllDigits(SubSeq(v[2], 2, Len(v[2])))
         THEN PyInt(0 - DigitsValue(SubSeq(v[2], 2, Len(v[2])), 0))
    ELSE None


(***************************************************************************)
(* Constants of the heuristics.                                            *)
(***************************************************************************)
NetuidLimit == 256
PositionalNetuidLimit == 1000
RaoPerTao == 1000000000

\* value / 1e9: the display amount, kept exact as whole TAO and the nine
\* decimal places (in RAO)
ToTao(rao) == [whole |-> rao \div RaoPerTao, nano |-> rao % RaoPerTao]

\* a + b on display amounts
AddTao(a, b) ==
    [whole |-> a.whole + b.whole + ((a.nano + b.nano) \div RaoPerTao),
     nano |-> (a.nano + b.nano) % RaoPerTao]

ZeroTao == [whole |-> 0, nano |-> 0]

Arg(n, v) == [dict |-> TRUE, name |-> n, value |-> v]
BareArg(v) == [dict |-> FALSE, name |-> "", value |-> v]
Call(m, f, a) == [call_module |-> m, call_function |-> f, call_args |-> a]

MaxOf(S) == CHOOSE x \in S : \A y \in S : y <= x
MinOf(S) == CHOOSE x \in S : \A y \in S : x <= y

TypeWrappers == {"U8", "U16", "U32", "U64", "U128", "U256", "Compact"}

\* int(val['value']) if val is a dict holding 'value', else int(val)
WrappedInt(val) ==
    IF IsPyDict(val) /\ val[2] = "value" THEN IntOf(val[3]) ELSE IntOf(val)

\* MempoolMonitor._extract_value_from_arg
extract_value_from_arg(arg) ==
    IF ~arg.dict THEN IntOf(arg.value)
    ELSE LET value == arg.value IN
         IF IsInt(value) \/ IsStr(value) THEN IntOf(value)
         ELSE IF IsPyDict(value) /\ value[2] = "value" THEN IntOf(value[3])
         ELSE IF IsPyDict(value) /\ value[2] \in TypeWrappers THEN WrappedInt(value[3])
         ELSE None

MoveSwapTransfer == {"move_stake", "move_stake_limit", "swap_stake",
                     "swap_stake_limit", "transfer_stake", "transfer_stake_limit"}

OriginNames == {"origin_netuid", "netuid_from", "src_netuid", "from_netuid",
                "source_netuid", "hotkey_netuid"}
DestNames == {"destination_netuid", "netuid_to", "dest_netuid", "to_netuid",
              "target_netuid", "coldkey_netuid"}

InRange(v, limit) == v # None /\ 0 <= v[2] /\ v[2] < limit

\* lines 327-347: the arguments whose value passes the 0..255 check
NetuidCandidates(call_args) ==
    {i \in 1..Len(call_args) :
        call_args[i].dict
        /\ InRange(extract_value_from_arg(call_args[i]), NetuidLimit)}

OriginArgs(call_args) ==
    {i \in NetuidCandidates(call_args) :
        ContainsAny(Lower(call_args[i].name), OriginNames)}

DestArgs(call_args) ==
    {i \in NetuidCandidates(call_args) \ OriginArgs(call_args) :
        ContainsAny(Lower(call_args[i].name), DestNames)}

OtherNetuidArgs(call_args) ==
    {i \in (NetuidCandidates(call_args) \ OriginArgs(call_args)) \ DestArgs(call_args) :
        Contains(Lower(call_args[i].name), "netuid")}

ValueAt(call_args, i) == extract_value_from_arg(call_args[i])[2]

\* lines 374-404: the single netuid of a regular operation
extract_netuid_regular(call_args) ==
    LET named == {i \in 1..Len(call_args) :
                    /\ call_args[i].dict
                    /\ \/ Contains(Lower(call_args[i].name), "netuid")
                       \/ Contains(Lower(call_args[i].name), "net_uid")
                    /\ InRange(extract_value_from_arg(call_args[i]), NetuidLimit)}
        positional == {i \in 1..Len(call_args) :
                    InRange(extract_value_from_arg(call_args[i]), PositionalNetuidLimit)}
    IN  IF named # {} THEN PyInt(ValueAt(call_args, MinOf(named)))
        ELSE IF positional # {} THEN PyInt(ValueAt(call_args, MinOf(positional)))
        ELSE None

\* lines 349-372: what the move/swap/transfer branch returns; <<"fall">> when it
\* returns nothing and the regular extraction follows
extract_netuid_move(call_args) ==
    LET o == OriginArgs(call_args)
        d == DestArgs(call_args)
        n == OtherNetuidArgs(call_args)
        val0 == extract_value_from_arg(call_args[1])
        val1 == extract_value_from_arg(call_args[2])
    IN  IF o # {} /\ d # {}
          THEN PyTuple(ValueAt(call_args, MaxOf(o)), ValueAt(call_args, MaxOf(d)))
        ELSE IF o # {} THEN PyInt(ValueAt(call_args, MaxOf(o)))
        ELSE IF d # {} THEN PyInt(ValueAt(call_args, MaxOf(d)))
        ELSE IF Cardinality(n) >= 2
          THEN PyTuple(ValueAt(call_args, MinOf(n)),
                       ValueAt(call_args, MinOf(n \ {MinOf(n)})))
        ELSE IF Cardinality(n) = 1 THEN PyInt(ValueAt(call_args, MinOf(n)))
        ELSE IF Len(call_args) >= 2 /\ InRange(val0, NetuidLimit)
                /\ InRange(val1, NetuidLimit)
          THEN PyTuple(val0[2], val1[2])
        ELSE IF Len(call_args) >= 2 /\ InRange(val0, NetuidLimit) THEN val0
        ELSE <<"fall">>

\* MempoolMonitor._extract_netuid
extract_netuid(call_args, call_function) ==
    IF Len(call_args) = 0 THEN None
    ELSE IF ContainsAny(call_function, MoveSwapTransfer)
            /\ extract_netuid_move(call_args) # <<"fall">>
         THEN extract_netuid_move(call_args)
    ELSE extract_netuid_regular(call_args)

(***************************************************************************)
(* BlockAnalyzer._extract_netuid_from_call.  int(arg.get('value')) raises  *)
(* on a value that is no number: <<"raise">> stands for the exception.     *)
(***************************************************************************)
Raise == <<"raise">>

BlockOriginNames == {"origin_netuid", "netuid_from", "src_netuid"}
BlockDestNames == {"destination_netuid", "netuid_to", "dest_netuid", "netuid"}
BlockNetuidNames == {"netuid", "net_uid"}

NamedArgs(call_args, names) ==
    {i \in 1..Len(call_args) : call_args[i].dict /\ call_args[i].name \in names}

IntAt(call_args, i) == IntOf(call_args[i].value)

\* lines 202-216
extract_netuid_from_call_regular(call_args, call_function) ==
    LET named == NamedArgs(call_args, BlockNetuidNames)
    IN  IF named # {}
          THEN (IF IntAt(call_args, MinOf(named)) = None THEN Raise
                ELSE IntAt(call_args, MinOf(named)))
        ELSE IF call_function \in {"add_stake", "remove_stake"} THEN PyInt(0)
        ELSE None

extract_netuid_from_call(call, call_function) ==
    LET call_args == call.call_args
        o == NamedArgs(call_args, BlockOriginNames)
        d == NamedArgs(call_args, BlockDestNames)
    IN  IF call_function \in MoveSwapTransfer
        THEN IF \E i \in o \cup d : IntAt(call_args, i) = None THEN Raise
             ELSE IF o # {} /\ d # {}
               THEN PyTuple(IntAt(call_args, MaxOf(o))[2], IntAt(call_args, MaxOf(d))[2])
             ELSE IF o # {} THEN IntAt(call_args, MaxOf(o))
             ELSE IF d # {} THEN IntAt(call_args, MaxOf(d))
             ELSE extract_netuid_from_call_regular(call_args, call_function)
        ELSE extract_netuid_from_call_regular(call_args, call_function)

(***************************************************************************)
(* bytes.fromhex, bytes.hex, int.from_bytes(..., 'big'), int(s, 16).       *)
(***************************************************************************)
HexChars == <<"0","1","2","3","4","5","6","7","8","9","a","b","c","d","e","f">>
IsHexChar(c) == \E i \in 1..16 : HexChars[i] = LowerChar(c)
HexVal(c) == (CHOOSE i \in 1..16 : HexChars[i] = LowerChar(c)) - 1

RECURSIVE HexPairs(_)
HexPairs(s) ==
    IF Len(s) = 0 THEN <<>>
    ELSE <<HexVal(SubSeq(s, 1, 1)) * 16 + HexVal(SubSeq(s, 2, 2))>>
         \o HexPairs(SubSeq(s, 3, Len(s)))

\* bytes.fromhex(s): <<"bytes", seq>>, or Raise (ValueError) on an odd length or
\* a character that is no hex digit
FromHex(s) ==
    IF Len(s) % 2 = 0 /\ \A i \in 1..Len(s) : IsHexChar(SubSeq(s, i, i))
    THEN <<"bytes", HexPairs(s)>>
    ELSE <<"raise">>

RECURSIVE HexOf(_)
HexOf(bs) ==
    IF Len(bs) = 0 THEN ""
    ELSE HexChars[(bs[1] \div 16) + 1] \o HexChars[(bs[1] % 16) + 1] \o HexOf(Tail(bs))

RECURSIVE FromBytesBig(_, _)
FromBytesBig(bs, acc) ==
    IF Len(bs) = 0 THEN acc ELSE FromBytesBig(Tail(bs), acc * 256 + bs[1])

RECURSIVE HexValue(_, _)
HexValue(s, acc) ==
    IF Len(s) = 0 THEN acc
    ELSE HexValue(SubSeq(s, 2, Len(s)), acc * 16 + HexVal(SubSeq(s, 1, 1)))

StartsWith0x(s) == Len(s) >= 2 /\ SubSeq(s, 1, 2) = "0x"

\* `not x` for the payload values
Falsy(v) ==
    \/ v = None
    \/ v[1] \in {"bytes", "str", "list"} /\ Len(v[2]) = 0

\* a or b or c
Or3(a, b, c) == IF ~Falsy(a) THEN a ELSE IF ~Falsy(b) THEN b ELSE c

Absent == <<"absent">>

(***************************************************************************)
(* MempoolMonitor._decode_evm_transaction_data.  tx_data is                *)
(* [shape, input, data, input_data, nonce, action]: shape is the key of    *)
(* the envelope ("EIP1559", "Legacy" or another), the other fields are     *)
(* the inner dict's entries, None when the key is missing.                 *)
(***************************************************************************)
SelectorLen == 4
WordLen == 32

\* lines 606-618
FunctionSelectors(selector_hex) ==
    IF selector_hex = "0x694e80c3" THEN "stake"
    ELSE IF selector_hex = "0x2c5211c6" THEN "remove_stake"
    ELSE "EVM_stake_op"

\* lines 583-595: the payload as bytes; None for a type the code gives up on
ToInputBytes(input_data) ==
    IF input_data[1] = "bytes" THEN input_data
    ELSE IF input_data[1] = "str"
      THEN (IF StartsWith0x(input_data[2])
            THEN FromHex(SubSeq(input_data[2], 3, Len(input_data[2])))
            ELSE FromHex(input_data[2]))
    ELSE IF input_data[1] = "list"
      THEN (IF \A i \in 1..Len(input_data[2]) :
                   input_data[2][i] >= 0 /\ input_data[2][i] < 256
            THEN <<"bytes", input_data[2]>> ELSE <<"raise">>)
    ELSE None

\* lines 661-674
EvmNonce(evm_nonce) ==
    IF evm_nonce = None THEN Absent
    ELSE IF IsStr(evm_nonce) /\ StartsWith0x(evm_nonce[2])
      THEN (IF Len(evm_nonce[2]) > 2
               /\ \A i \in 3..Len(evm_nonce[2]) : IsHexChar(SubSeq(evm_nonce[2], i, i))
            THEN PyInt(HexValue(SubSeq(evm_nonce[2], 3, Len(evm_nonce[2])), 0))
            ELSE Absent)
    ELSE IF IntOf(evm_nonce) = None THEN Absent
    ELSE IntOf(evm_nonce)

\* DecodeInput with the swap of lines 639-643 taking the subnet id from the
\* second word but leaving the amount there too
DecodeInputHalfSwap(bs, evm_nonce) ==
    LET selector_hex == "0x" \o HexOf(SubSeq(bs, 1, SelectorLen))
        params_data == SubSeq(bs, SelectorLen + 1, Len(bs))
        netuid == FromBytesBig(SubSeq(params_data, 1, WordLen), 0)
        amount_rao == FromBytesBig(SubSeq(params_data, WordLen + 1, 2 * WordLen), 0)
        swap == ~(0 <= netuid /\ netuid < NetuidLimit)
        swap_ok == 0 <= amount_rao /\ amount_rao < NetuidLimit /\ netuid > 0
        netuid2 == IF swap THEN amount_rao ELSE netuid
    IN  IF Len(bs) < SelectorLen + 2 * WordLen THEN None
        ELSE IF swap /\ ~swap_ok THEN None
        ELSE IF amount_rao <= 0 THEN None
        ELSE <<"evm", [function |-> FunctionSelectors(selector_hex),
                       amount |-> ToTao(amount_rao),
                       netuid |-> netuid2,
                       selector |-> selector_hex,
                       nonce |-> EvmNonce(evm_nonce)]>>

\* lines 620-678, on the payload bytes
DecodeInput(bs, evm_nonce) ==
    LET selector_hex == "0x" \o HexOf(SubSeq(bs, 1, SelectorLen))
        params_data == SubSeq(bs, SelectorLen + 1, Len(bs))
        netuid == FromBytesBig(SubSeq(params_data, 1, WordLen), 0)
        amount_rao == FromBytesBig(SubSeq(params_data, WordLen + 1, 2 * WordLen), 0)
        swap == ~(0 <= netuid /\ netuid < NetuidLimit)
        swap_ok == 0 <= amount_rao /\ amount_rao < NetuidLimit /\ netuid > 0
        netuid2 == IF swap THEN amount_rao ELSE netuid
        amount_rao2 == IF swap THEN netuid ELSE amount_rao
    IN  IF Len(bs) < SelectorLen + 2 * WordLen THEN None
        ELSE IF swap /\ ~swap_ok THEN None
        ELSE IF amount_rao2 <= 0 THEN None
        ELSE <<"evm", [function |-> FunctionSelectors(selector_hex),
                       amount |-> ToTao(amount_rao2),
                       netuid |-> netuid2,
                       selector |-> selector_hex,
                       nonce |-> EvmNonce(evm_nonce)]>>

\* decode_evm_transaction_data labelling a payload by whatever selector bytes it
\* has, without the length checks of lines 597 and 622
decode_evm_selector_only(tx_data) ==
    LET input_data ==
            IF tx_data.shape \in {"EIP1559", "Legacy"}
            THEN Or3(tx_data.input, tx_data.data, tx_data.input_data)
            ELSE None
        bs == ToInputBytes(input_data)
    IN  IF Falsy(input_data) THEN None
        ELSE IF bs = None \/ bs = <<"raise">> THEN None
        ELSE IF Len(bs[2]) < SelectorLen + 2 * WordLen
          THEN <<"evm", [function |-> FunctionSelectors("0x" \o HexOf(bs[2])),
                         amount |-> ZeroTao, netuid |-> 0,
                         selector |-> "0x" \o HexOf(bs[2]), nonce |-> Absent]>>
        ELSE DecodeInput(bs[2], tx_data.nonce)

decode_evm_transaction_data(tx_data) ==
    LET input_data ==
            IF tx_data.shape \in {"EIP1559", "Legacy"}
            THEN Or3(tx_data.input, tx_data.data, tx_data.input_data)
            ELSE None
        bs == ToInputBytes(input_data)
    IN  IF Falsy(input_data) THEN None
        ELSE IF bs = None \/ bs = <<"raise">> THEN None
        ELSE IF Len(bs[2]) < SelectorLen THEN None
        ELSE DecodeInput(bs[2], tx_data.nonce)

(***************************************************************************)
(* BlockAnalyzer (monitoring_block_advanced.py).                           *)
(***************************************************************************)
Truthy(v) == v # None /\ ~(v[1] \in {"str", "calls"} /\ Len(v[2]) = 0)

\* the dict calls among a 'calls'/'call' argument's value, in order
CallsOf(value) ==
    IF value[1] = "calls" THEN value[2]
    ELSE IF value[1] = "call" THEN <<value[2]>>
    ELSE <<>>

\* the nested calls the scan of a wrapper's arguments visits, in order:
\* every dict argument named in `names` whose value is truthy
RECURSIVE NestedCalls(_, _, _)
NestedCalls(call_args, names, i) ==
    IF i > Len(call_args) THEN <<>>
    ELSE (IF call_args[i].dict /\ call_args[i].name \in names
             /\ Truthy(call_args[i].value)
          THEN CallsOf(call_args[i].value) ELSE <<>>)
         \o NestedCalls(call_args, names, i + 1)

WrapperModules == {"Utility", "Proxy", "Multisig"}
WrapperFunctions == {"batch", "batch_all", "force_batch", "proxy", "as_multi",
                     "as_derivative"}

\* lines 111-115
is_wrapper(call) ==
    \/ call.call_module \in WrapperModules
    \/ call.call_function \in WrapperFunctions
    \/ call.call_module = "Utility"
    \/ Contains(Lower(call.call_function), "batch")
    \/ Contains(Lower(call.call_function), "proxy")

\* BlockAnalyzer.parse_nested_call: <<netuid, method, is_nested>> or Raise
parse_nested_call(call) ==
    LET nested == NestedCalls(call.call_args, {"calls", "call"}, 1)
        staking == {i \in 1..Len(nested) : nested[i].call_module = "SubtensorModule"}
        first == nested[MinOf(staking)]
        netuid == extract_netuid_from_call(first, first.call_function)
    IN  IF is_wrapper(call)
        THEN IF staking # {}
             THEN (IF netuid = Raise THEN Raise
                   ELSE <<netuid,
                          PyStr(call.call_function \o " > " \o first.call_function),
                          TRUE>>)
             ELSE <<None, PyStr(call.call_function \o " (wrapper)"), FALSE>>
        ELSE IF call.call_module = "SubtensorModule"
        THEN (IF extract_netuid_from_call(call, call.call_function) = Raise THEN Raise
              ELSE <<extract_netuid_from_call(call, call.call_function),
                     PyStr(call.call_function), FALSE>>)
        ELSE <<None, None, FALSE>>

SameSubnetOperations == {"move_stake", "move_stake_limit", "transfer_stake",
                         "transfer_stake_limit"}

\* int(arg.get('value')) raises inside _check_same_subnet_transfer
check_same_subnet_raises(call, call_function) ==
    /\ call_function \in SameSubnetOperations
    /\ \E i \in NamedArgs(call.call_args, BlockOriginNames \cup BlockDestNames) :
           IntAt(call.call_args, i) = None

\* BlockAnalyzer._check_same_subnet_transfer, when it does not raise
check_same_subnet_transfer(call, call_function) ==
    LET call_args == call.call_args
        o == NamedArgs(call_args, BlockOriginNames)
        d == NamedArgs(call_args, BlockDestNames)
    IN  /\ call_function \in SameSubnetOperations
        /\ o # {}
        /\ d # {}
        /\ IntAt(call_args, MaxOf(o)) = IntAt(call_args, MaxOf(d))

\* method.split(' > ')[-1]
RECURSIVE SplitLast(_, _)
SplitLast(s, sep) ==
    IF Contains(s, sep)
    THEN SplitLast(SubSeq(s, (CHOOSE i \in 1..Len(s) :
                                 /\ SubSeq(s, i, i + Len(sep) - 1) = sep
                                 /\ \A j \in 1..(i - 1) :
                                        SubSeq(s, j, j + Len(sep) - 1) # sep)
                             + Len(sep), Len(s)), sep)
    ELSE s

NoDetails == <<None, None, FALSE>>

\* BlockAnalyzer.get_extrinsic_details: <<netuid, method, should_skip>>.
\* block.extrinsics[i] is [has_call, call]; extrinsic_idx is None or an int
get_extrinsic_details(block, extrinsic_idx) ==
    IF extrinsic_idx = None THEN NoDetails
    ELSE IF extrinsic_idx[2] >= Len(block.extrinsics) THEN NoDetails
    ELSE IF ~block.extrinsics[extrinsic_idx[2] + 1].has_call THEN NoDetails
    ELSE LET call == block.extrinsics[extrinsic_idx[2] + 1].call
             parsed == parse_nested_call(call)
             method == parsed[2]
             inner_method == SplitLast(method[2], " > ")
         IN  IF parsed = Raise THEN NoDetails
             ELSE IF ~Truthy(method) THEN <<parsed[1], method, FALSE>>
             ELSE IF check_same_subnet_raises(call, inner_method) THEN NoDetails
             ELSE <<parsed[1], method, check_same_subnet_transfer(call, inner_method)>>

(***************************************************************************)
(* str(x) for the values a netuid takes.                                   *)
(***************************************************************************)
RECURSIVE NatStr(_)
NatStr(n) == IF n < 10 THEN Digits[n + 1] ELSE NatStr(n \div 10) \o Digits[(n % 10) + 1]

IntStr(n) == IF n < 0 THEN "-" \o NatStr(0 - n) ELSE NatStr(n)

RECURSIVE JoinInts(_)
JoinInts(s) ==
    IF Len(s) = 0 THEN ""
    ELSE IF Len(s) = 1 THEN IntStr(s[1])
    ELSE IntStr(s[1]) \o ", " \o JoinInts(Tail(s))

StrOf(v) ==
    IF v = None THEN "None"
    ELSE IF IsInt(v) THEN IntStr(v[2])
    ELSE IF IsStr(v) THEN v[2]
    ELSE IF IsTuple2(v) THEN "(" \o IntStr(v[2]) \o ", " \o IntStr(v[3]) \o ")"
    ELSE "[" \o JoinInts(v[2]) \o "]"

\* lines 329-337: the grouping key of a transaction
MergeKey(tx) == <<tx.extrinsic_index, tx.type, tx.method, tx.address, StrOf(tx.netuid)>>

\* lines 339-344 with the amounts of later duplicates dropped
MergeOneKeepFirst(merged, tx) ==
    IF \E j \in 1..Len(merged) : MergeKey(merged[j]) = MergeKey(tx)
    THEN merged
    ELSE Append(merged, tx)

\* lines 339-344: one transaction merged into the groups built so far
MergeOne(merged, tx) ==
    IF \E j \in 1..Len(merged) : MergeKey(merged[j]) = MergeKey(tx)
    THEN [j \in 1..Len(merged) |->
            IF MergeKey(merged[j]) = MergeKey(tx)
            THEN [merged[j] EXCEPT !.tao_amount = AddTao(@, tx.tao_amount)]
            ELSE merged[j]]
    ELSE Append(merged, tx)

RECURSIVE MergeFrom(_, _, _)
MergeFrom(merged, transactions, i) ==
    IF i > Len(transactions) THEN merged
    ELSE MergeFrom(MergeOne(merged, transactions[i]), transactions, i + 1)

\* BlockAnalyzer._merge_duplicate_transactions
merge_duplicate_transactions(transactions) == MergeFrom(<<>>, transactions, 1)

(***************************************************************************)
(* BlockAnalyzer.get_current_block_data.  An event is                      *)
(* [module_id, event_id, attributes, extrinsic_idx]; attributes is         *)
(* [length, hotkey, coldkey, amount_rao, slot4]: slot4 is attributes[4],   *)
(* read only when length >= 5.  uids maps a hotkey to the ascending list   *)
(* of the subnets it is registered on (storage SubtensorModule.Uids).      *)
(***************************************************************************)
MinHotkeyLen == 10
MinAttributes == 3
MinExtendedAttributes == 5

\* line 77: range(64), the subnets whose Uids entry is queried
ScannedSubnets == 64

IsScanned(netuid) == netuid < ScannedSubnets

\* BlockAnalyzer.get_netuids_for_hotkey.  uids[hotkey] lists, in ascending
\* order, the subnets the hotkey is registered on, as the Uids queries answer
\* (a query that raises skips its subnet like an empty answer, lines 86-87).
get_netuids_for_hotkey(hotkey, uids) ==
    IF Len(hotkey) < MinHotkeyLen THEN <<>>
    ELSE SelectSeq(uids[hotkey], IsScanned)

\* lines 387-397
EventNetuid(attributes) ==
    IF attributes.length >= MinExtendedAttributes
       /\ InRange(IntOf(attributes.slot4), NetuidLimit)
    THEN IntOf(attributes.slot4)
    ELSE None

\* lines 420-436
ResolveNetuid(netuid, event_netuid, netuids) ==
    IF netuid # None THEN netuid
    ELSE IF event_netuid # None THEN event_netuid
    ELSE IF Len(netuids) = 1 THEN PyInt(netuids[1])
    ELSE IF Len(netuids) > 1 THEN PyList(netuids)
    ELSE PyStr("Unknown")

\* lines 438-459
MethodDisplay(block, method, extrinsic_idx) ==
    IF Truthy(method) THEN method[2]
    ELSE IF extrinsic_idx = None THEN "N/A (no extrinsic)"
    ELSE IF extrinsic_idx[2] < Len(block.extrinsics)
            /\ block.extrinsics[extrinsic_idx[2] + 1].has_call
            /\ block.extrinsics[extrinsic_idx[2] + 1].call.call_module = "Ethereum"
         THEN "EVM transaction"
    ELSE "unknown"

\* lines 369-375, 382: the events the loop turns into a transaction or skips
IsStakeEvent(event) ==
    /\ event.module_id = "SubtensorModule"
    /\ event.event_id \in {"StakeAdded", "StakeRemoved"}
    /\ event.attributes.length >= MinAttributes

\* lines 377-472 with the amount read from the call's amount_staked argument
\* when the extrinsic has one
EventTransactionCallAmount(block_number, block, event, uids) ==
    LET attributes == event.attributes
        details == get_extrinsic_details(block, event.extrinsic_idx)
        call_args == block.extrinsics[event.extrinsic_idx[2] + 1].call.call_args
        staked == IF event.extrinsic_idx = None THEN {}
                  ELSE NamedArgs(call_args, {"amount_staked"})
    IN  [block_number |-> block_number,
         extrinsic_index |-> event.extrinsic_idx,
         address |-> attributes.hotkey,
         tao_amount |-> IF staked = {} THEN ToTao(attributes.amount_rao)
                        ELSE ToTao(call_args[MinOf(staked)].value[2]),
         netuid |-> ResolveNetuid(details[1], EventNetuid(attributes),
                                  get_netuids_for_hotkey(attributes.hotkey, uids)),
         method |-> MethodDisplay(block, details[2], event.extrinsic_idx),
         type |-> IF event.event_id = "StakeAdded" THEN "STAKE" ELSE "UNSTAKE",
         hotkey |-> attributes.hotkey,
         coldkey |-> attributes.coldkey]

\* lines 377-472: the transaction of one stake event that is not skipped
EventTransaction(block_number, block, event, uids) ==
    LET attributes == event.attributes
        details == get_extrinsic_details(block, event.extrinsic_idx)
    IN  [block_number |-> block_number,
         extrinsic_index |-> event.extrinsic_idx,
         address |-> attributes.hotkey,
         tao_amount |-> ToTao(attributes.amount_rao),
         netuid |-> ResolveNetuid(details[1], EventNetuid(attributes),
                                  get_netuids_for_hotkey(attributes.hotkey, uids)),
         method |-> MethodDisplay(block, details[2], event.extrinsic_idx),
         type |-> IF event.event_id = "StakeAdded" THEN "STAKE" ELSE "UNSTAKE",
         hotkey |-> attributes.hotkey,
         coldkey |-> attributes.coldkey]

RECURSIVE EventTransactions(_, _, _, _, _)
EventTransactions(block_number, block, events, uids, i) ==
    IF i > Len(events) THEN <<>>
    ELSE (IF IsStakeEvent(events[i])
             /\ ~get_extrinsic_details(block, events[i].extrinsic_idx)[3]
          THEN <<EventTransaction(block_number, block, events[i], uids)>>
          ELSE <<>>)
         \o EventTransactions(block_number, block, events, uids, i + 1)

\* fetch_ok = FALSE: get_block_hash, get_block or get_events raised
get_current_block_data(block_number, block, events, uids, fetch_ok) ==
    IF fetch_ok
    THEN merge_duplicate_transactions(
             EventTransactions(block_number, block, events, uids, 1))
    ELSE <<>>

(***************************************************************************)
(* MempoolMonitor: classification of one pending extrinsic.                *)
(***************************************************************************)
StakeOperations == {"add_stake", "add_stake_limit", "remove_stake",
                    "remove_stake_full_limit", "move_stake", "move_stake_limit",
                    "swap_stake", "swap_stake_limit", "transfer_stake",
                    "transfer_stake_limit", "unstake_all"}

\* MempoolMonitor.is_stake_operation
is_stake_operation(call_function) == call_function \in StakeOperations

AmountParamNames == {"amount", "stake", "value", "stake_amount", "tao_amount",
                     "rao_amount", "hotkey_amount"}

PyFloat(tao) == <<"float", tao>>

\* value is not None and value > 0 and value >= 1000
LooksLikeAmount(v) == v # None /\ v[2] > 0 /\ v[2] >= PositionalNetuidLimit

\* MempoolMonitor._extract_amount
extract_amount(call_args, call_function) ==
    LET named == {i \in 1..Len(call_args) :
                    /\ call_args[i].dict
                    /\ ~Contains(Lower(call_args[i].name), "netuid")
                    /\ ContainsAny(Lower(call_args[i].name), AmountParamNames)
                    /\ extract_value_from_arg(call_args[i]) # None
                    /\ extract_value_from_arg(call_args[i])[2] > 0}
        at(i) == extract_value_from_arg(call_args[i])
        \* lines 521-536: position 2, then 1, then 0 (0-based)
        order == <<3, 2, 1>>
        moved == {k \in 1..3 : order[k] <= Len(call_args) /\ LooksLikeAmount(at(order[k]))}
        \* lines 540-552
        scanned == {i \in 1..Len(call_args) : LooksLikeAmount(at(i))}
    IN  IF Len(call_args) = 0 THEN None
        ELSE IF named # {} THEN PyFloat(ToTao(at(MinOf(named))[2]))
        ELSE IF ContainsAny(Lower(call_function), MoveSwapTransfer)
          THEN (IF moved # {} THEN PyFloat(ToTao(at(order[MinOf(moved)])[2])) ELSE None)
        ELSE IF scanned # {} THEN PyFloat(ToTao(at(MinOf(scanned))[2]))
        ELSE None

MaxDepth == 5
MempoolWrapperModules == {"Utility", "Proxy", "Multisig", "Sudo", "XcmPallet"}
NestedArgNames == {"calls", "call", "other_signatories", "call_hash", "call_encoded"}

RECURSIVE NestedCallsLower(_, _, _)
NestedCallsLower(call_args, names, i) ==
    IF i > Len(call_args) THEN <<>>
    ELSE (IF call_args[i].dict /\ Lower(call_args[i].name) \in names
          THEN CallsOf(call_args[i].value) ELSE <<>>)
         \o NestedCallsLower(call_args, names, i + 1)

Parsed(type, wrapper, module, function, signer, netuid, amount, nonce) ==
    <<"parsed", [type |-> type, wrapper |-> wrapper, module |-> module,
                 function |-> function, signer |-> signer, netuid |-> netuid,
                 amount |-> amount, nonce |-> nonce]>>

\* the guard of line 245 letting one more level through
depth_exhausted_late(depth) == depth > MaxDepth

\* line 245
depth_exhausted(depth) == depth >= MaxDepth

\* MempoolMonitor._find_nested_stake_operation
RECURSIVE find_nested_stake_operation(_, _, _, _, _, _)
find_nested_stake_operation(wrapper_module, wrapper_function, call_args, signer, nonce, depth) ==
    LET nested == NestedCallsLower(call_args, NestedArgNames, 1)
        wrapper == wrapper_module \o "." \o wrapper_function
        found(c) ==
            IF c.call_module = "SubtensorModule" /\ is_stake_operation(c.call_function)
            THEN Parsed("nested", wrapper, c.call_module, c.call_function, signer,
                        extract_netuid(c.call_args, c.call_function),
                        extract_amount(c.call_args, c.call_function), nonce)
            ELSE LET deeper == find_nested_stake_operation(
                                   c.call_module, c.call_function, c.call_args,
                                   signer, nonce, depth + 1)
                 IN  IF deeper = None THEN None
                     ELSE <<"parsed", [deeper[2] EXCEPT
                                !.wrapper = wrapper \o ">" \o deeper[2].wrapper]>>
        hits == {i \in 1..Len(nested) : found(nested[i]) # None}
    IN  IF depth_exhausted(depth) THEN None
        ELSE IF wrapper_module \notin MempoolWrapperModules THEN None
        ELSE IF hits = {} THEN None
        ELSE found(nested[MinOf(hits)])

(***************************************************************************)
(* MempoolMonitor.parse_extrinsic on what substrate.decode_scale gives for *)
(* the blob: [decodes, has_call, call, signer, nonce]; decodes = FALSE     *)
(* when the codec raises, has_call = FALSE when the decoded value is empty *)
(* or holds no 'call'.                                                     *)
(***************************************************************************)
\* lines 161-175: the 'transaction' argument's value, if it is a dict
EvmTxData(call_args) ==
    LET hits == {i \in 1..Len(call_args) :
                    /\ call_args[i].dict
                    /\ call_args[i].name = "transaction"
                    /\ call_args[i].value[1] = "tx"}
    IN  IF hits = {} THEN None ELSE call_args[MaxOf(hits)].value

\* lines 227-228: what leaves the try block, an exception caught as None
ExceptNone(r) == IF r = Raise THEN None ELSE r

\* lines 89-225: the body of the try block; Raise when an exception leaves it
parse_extrinsic_body(extrinsic) ==
    LET call == extrinsic.call
        evm_tx == EvmTxData(call.call_args)
        evm_details == IF evm_tx = None THEN None
                       ELSE decode_evm_transaction_data(evm_tx[2])
        evm_signer == IF evm_tx # None /\ evm_tx[2].action # None
                      THEN evm_tx[2].action ELSE extrinsic.signer
        nested == find_nested_stake_operation(call.call_module, call.call_function,
                                              call.call_args, extrinsic.signer,
                                              extrinsic.nonce, 0)
    IN  IF ~extrinsic.decodes THEN Raise
        ELSE IF ~extrinsic.has_call THEN None
        ELSE IF call.call_module = "Ethereum" /\ call.call_function = "transact"
                /\ evm_details # None
          THEN Parsed("evm", "", call.call_module, evm_details[2].function, evm_signer,
                      PyInt(evm_details[2].netuid), PyFloat(evm_details[2].amount),
                      IF evm_details[2].nonce = Absent THEN extrinsic.nonce
                      ELSE evm_details[2].nonce)
        ELSE IF call.call_module = "SubtensorModule"
                /\ is_stake_operation(call.call_function)
          THEN Parsed("direct", "", call.call_module, call.call_function,
                      extrinsic.signer,
                      extract_netuid(call.call_args, call.call_function),
                      extract_amount(call.call_args, call.call_function),
                      extrinsic.nonce)
        ELSE nested

\* parse_extrinsic without the handler of lines 227-228
parse_decoded_unhandled(extrinsic) == parse_extrinsic_body(extrinsic)

\* lines 88, 227-228: try ... except Exception: return None
parse_decoded(extrinsic) == ExceptNone(parse_extrinsic_body(extrinsic))

(***************************************************************************)
(* MempoolMonitor.parse_block_stake_transactions.  A block is              *)
(* [ext_hashes, extrinsics, events].                                       *)
(***************************************************************************)
\* lines 766-778: the scan of a Utility/Proxy call's arguments; st is
\* <<method, netuid>> so far
RECURSIVE ScanWrapperArgs(_, _, _)
ScanWrapperArgs(call, st, i) ==
    IF i > Len(call.call_args) THEN st
    ELSE LET arg == call.call_args[i]
             nested == IF arg.dict /\ arg.name \in {"calls", "call"}
                       THEN CallsOf(arg.value) ELSE <<>>
             staking == {k \in 1..Len(nested) :
                            nested[k].call_module = "SubtensorModule"}
             first == nested[MinOf(staking)]
         IN  IF staking = {} THEN ScanWrapperArgs(call, st, i + 1)
             ELSE ScanWrapperArgs(call,
                      <<call.call_function \o ">" \o first.call_function,
                        IF st[2] = None
                        THEN extract_netuid(first.call_args, first.call_function)
                        ELSE st[2]>>,
                      i + 1)

\* lines 750-757: the first 'transaction' argument whose value is a dict
FirstEvmTxData(call_args) ==
    LET hits == {i \in 1..Len(call_args) :
                    /\ call_args[i].dict
                    /\ call_args[i].name = "transaction"
                    /\ call_args[i].value[1] = "tx"}
    IN  IF hits = {} THEN None ELSE call_args[MinOf(hits)].value

\* lines 734-778: <<method, netuid>> of a stake event
BlockMethodNetuid(block, extrinsic_idx, event_netuid) ==
    LET call == block.extrinsics[extrinsic_idx[2] + 1].call
        evm_tx == FirstEvmTxData(call.call_args)
        evm_details == IF evm_tx = None THEN None
                       ELSE decode_evm_transaction_data(evm_tx[2])
    IN  IF extrinsic_idx = None THEN <<"unknown", event_netuid>>
        ELSE IF extrinsic_idx[2] >= Len(block.extrinsics) THEN <<"unknown", event_netuid>>
        ELSE IF ~block.extrinsics[extrinsic_idx[2] + 1].has_call
          THEN <<"unknown", event_netuid>>
        ELSE IF call.call_module = "SubtensorModule"
          THEN <<call.call_function,
                 IF event_netuid = None
                 THEN extract_netuid(call.call_args, call.call_function)
                 ELSE event_netuid>>
        ELSE IF call.call_module = "Ethereum"
          THEN (IF evm_details # None
                THEN <<"EVM." \o evm_details[2].function,
                       IF event_netuid = None THEN PyInt(evm_details[2].netuid)
                       ELSE event_netuid>>
                ELSE <<"EVM.transact", event_netuid>>)
        ELSE IF call.call_module \in {"Utility", "Proxy"}
          THEN ScanWrapperArgs(call, <<"unknown", event_netuid>>, 1)
        ELSE <<"unknown", event_netuid>>

\* lines 780-788
RECURSIVE ExtrinsicSucceeded(_, _, _, _)
ExtrinsicSucceeded(events, extrinsic_idx, success, i) ==
    IF i > Len(events) THEN success
    ELSE IF events[i].extrinsic_idx = extrinsic_idx /\ events[i].module_id = "System"
            /\ events[i].event_id = "ExtrinsicSuccess"
      THEN ExtrinsicSucceeded(events, extrinsic_idx, TRUE, i + 1)
    ELSE IF events[i].extrinsic_idx = extrinsic_idx /\ events[i].module_id = "System"
            /\ events[i].event_id = "ExtrinsicFailed"
      THEN ExtrinsicSucceeded(events, extrinsic_idx, FALSE, i + 1)
    ELSE ExtrinsicSucceeded(events, extrinsic_idx, success, i + 1)

BlockStakeTransaction(block, event) ==
    LET mn == BlockMethodNetuid(block, event.extrinsic_idx,
                                EventNetuid(event.attributes))
    IN  [extrinsic_idx |-> event.extrinsic_idx,
         type |-> IF event.event_id = "StakeAdded" THEN "STAKE" ELSE "UNSTAKE",
         method |-> mn[1],
         address |-> event.attributes.hotkey,
         amount |-> ToTao(event.attributes.amount_rao),
         netuid |-> mn[2],
         success |-> ExtrinsicSucceeded(block.events, event.extrinsic_idx, FALSE, 1)]

RECURSIVE BlockStakeTransactions(_, _)
BlockStakeTransactions(block, i) ==
    IF i > Len(block.events) THEN <<>>
    ELSE (IF IsStakeEvent(block.events[i])
          THEN <<BlockStakeTransaction(block, block.events[i])>> ELSE <<>>)
         \o BlockStakeTransactions(block, i + 1)

\* fetch_ok = FALSE: get_block_hash, get_block or get_events raised
parse_block_stake_transactions(block, fetch_ok) ==
    IF fetch_ok THEN BlockStakeTransactions(block, 1) ELSE <<>>

(***************************************************************************)
(* MempoolMonitor.display_screen, last block section: lines 1005-1043.     *)
(***************************************************************************)
\* lines 1007-1017: a same-subnet move_stake/transfer_stake is not displayed
SkippedInDisplay(tx) ==
    /\ \/ Contains(Lower(tx.method), "move_stake")
       \/ Contains(Lower(tx.method), "transfer_stake")
    /\ IsTuple2(tx.netuid)
    /\ tx.netuid[2] = tx.netuid[3]

\* line 1026
DisplayKey(tx) == <<tx.extrinsic_idx, tx.type, tx.method, tx.address, tx.netuid>>

\* DisplayMergeOne with line 1041 keeping the flag of the last candidate
DisplayMergeOneLastWins(merged_txs, tx) ==
    LET seeded ==
            IF \E j \in 1..Len(merged_txs) : DisplayKey(merged_txs[j]) = DisplayKey(tx)
            THEN merged_txs
            ELSE Append(merged_txs,
                        [extrinsic_idx |-> tx.extrinsic_idx, type |-> tx.type,
                         method |-> tx.method, address |-> tx.address,
                         netuid |-> tx.netuid, amount |-> ZeroTao,
                         success |-> TRUE, count |-> 0])
    IN  [j \in 1..Len(seeded) |->
            IF DisplayKey(seeded[j]) = DisplayKey(tx)
            THEN [seeded[j] EXCEPT !.amount = AddTao(@, tx.amount),
                                   !.success = tx.success,
                                   !.count = @ + 1]
            ELSE seeded[j]]

\* lines 1028-1043
DisplayMergeOne(merged_txs, tx) ==
    LET seeded ==
            IF \E j \in 1..Len(merged_txs) : DisplayKey(merged_txs[j]) = DisplayKey(tx)
            THEN merged_txs
            ELSE Append(merged_txs,
                        [extrinsic_idx |-> tx.extrinsic_idx, type |-> tx.type,
                         method |-> tx.method, address |-> tx.address,
                         netuid |-> tx.netuid, amount |-> ZeroTao,
                         success |-> TRUE, count |-> 0])
    IN  [j \in 1..Len(seeded) |->
            IF DisplayKey(seeded[j]) = DisplayKey(tx)
            THEN [seeded[j] EXCEPT !.amount = AddTao(@, tx.amount),
                                   !.success = @ /\ tx.success,
                                   !.count = @ + 1]
            ELSE seeded[j]]

RECURSIVE DisplayMergeFrom(_, _, _)
DisplayMergeFrom(merged_txs, data, i) ==
    IF i > Len(data) THEN merged_txs
    ELSE IF SkippedInDisplay(data[i]) THEN DisplayMergeFrom(merged_txs, data, i + 1)
    ELSE DisplayMergeFrom(DisplayMergeOne(merged_txs, data[i]), data, i + 1)

\* merged_txs of display_screen for self.last_block_data = data
display_merged_txs(data) == DisplayMergeFrom(<<>>, data, 1)

(***************************************************************************)
(* The node and the chain.  Decode is what substrate.decode_scale returns   *)
(* for a raw extrinsic; Fingerprints are the ones submitted to the node.   *)
(***************************************************************************)
ExtAddStake == "0xa1"
ExtTransfer == "0xb2"
ExtBatchRemove == "0xc3"
Fingerprints == {ExtAddStake, ExtTransfer}

Extrinsic(call, signer, nonce) ==
    [decodes |-> TRUE, has_call |-> TRUE, call |-> call, signer |-> signer,
     nonce |-> nonce]

Decode(ext_hex) ==
    IF ext_hex = ExtAddStake
    THEN Extrinsic(Call("SubtensorModule", "add_stake",
                        <<Arg("hotkey", PyStr("5GrwvaEF5z")), Arg("netuid", PyInt(3)),
                          Arg("amount_staked", PyInt(1500000000))>>),
                   PyStr("5Def"), PyInt(7))
    ELSE IF ext_hex = ExtBatchRemove
    THEN Extrinsic(Call("Utility", "batch_all",
                        <<Arg("calls", <<"calls",
                            <<Call("SubtensorModule", "remove_stake",
                                   <<Arg("hotkey", PyStr("5GrwvaEF5z")),
                                     Arg("netuid", PyInt(7)),
                                     Arg("amount_unstaked", PyInt(500000000))>>)>> >>)>>),
                   PyStr("5Def"), PyInt(8))
    ELSE Extrinsic(Call("Balances", "transfer",
                        <<Arg("dest", PyStr("5Fgh")), Arg("value", PyInt(1000))>>),
                   PyStr("5Def"), PyInt(9))

\* MempoolMonitor.parse_extrinsic
parse_extrinsic(ext_hex) == parse_decoded(Decode(ext_hex))

\* the extrinsics of a block that includes S, in a fixed order
FingerprintOrder == <<ExtAddStake, ExtTransfer, ExtBatchRemove>>
InSet(S, x) == x \in S
HashSeq(S) == SelectSeq(FingerprintOrder, LAMBDA x : InSet(S, x))

\* the events the chain emits for extrinsic number idx (0-based) of a block
EventsOf(ext_hex, idx) ==
    LET sys == [module_id |-> "System", event_id |-> "ExtrinsicSuccess",
                attributes |-> [length |-> 0, hotkey |-> "", coldkey |-> "",
                                amount_rao |-> 0, slot4 |-> Absent],
                extrinsic_idx |-> PyInt(idx)]
        stake(event_id, rao) ==
               [module_id |-> "SubtensorModule", event_id |-> event_id,
                attributes |-> [length |-> 3, hotkey |-> "5GrwvaEF5z",
                                coldkey |-> "5Def", amount_rao |-> rao,
                                slot4 |-> Absent],
                extrinsic_idx |-> PyInt(idx)]
    IN  IF ext_hex = ExtAddStake THEN <<stake("StakeAdded", 1500000000), sys>>
        ELSE IF ext_hex = ExtBatchRemove THEN <<stake("StakeRemoved", 500000000), sys>>
        ELSE <<sys>>

RECURSIVE BlockEvents(_, _)
BlockEvents(hashes, i) ==
    IF i > Len(hashes) THEN <<>>
    ELSE EventsOf(hashes[i], i - 1) \o BlockEvents(hashes, i + 1)

\* the block that includes the extrinsics S
BlockOf(S) ==
    [ext_hashes |-> S,
     extrinsics |-> [i \in 1..Len(HashSeq(S)) |->
                        [has_call |-> TRUE, call |-> Decode(HashSeq(S)[i]).call]],
     events |-> BlockEvents(HashSeq(S), 1)]

(***************************************************************************)
(* MempoolMonitor.monitor: one poll cycle is                               *)
(*   head (line 1164) -> block (1167-1186) -> pending (1189-1205)          *)
(*   -> display (1208) -> sleep (1211) -> head ...                         *)
(* An exception inside the cycle is caught at line 1213: the cycle ends    *)
(* there and the next one starts after sleep(1).                           *)
(***************************************************************************)
MaxCycles == 3
MaxBlock == 2

\* lines 1174-1177
RemoveMined(txs, block_ext_hashes) ==
    [h \in DOMAIN txs \ block_ext_hashes |-> txs[h]]

\* lines 1193-1200 without the test of line 1194: every pending stake
\* operation is classified and stamped again
AddNewStampAll(txs, pending, time) ==
    [h \in DOMAIN txs \cup {x \in pending : parse_extrinsic(x) # None} |->
        IF h \in pending /\ parse_extrinsic(h) # None
        THEN [parsed |-> parse_extrinsic(h)[2], time |-> time]
        ELSE txs[h]]

\* lines 1193-1200
AddNew(txs, pending, time) ==
    [h \in DOMAIN txs \cup {x \in pending : parse_extrinsic(x) # None} |->
        IF h \in DOMAIN txs THEN txs[h]
        ELSE [parsed |-> parse_extrinsic(h)[2], time |-> time]]

\* lines 1203-1205 with the membership test never true: nothing is dropped
RemoveDroppedNever(txs, current_pending) == txs

\* lines 1203-1205
RemoveDropped(txs, current_pending) ==
    [h \in DOMAIN txs \cap current_pending |-> txs[h]]

\* MempoolMonitor.get_block_extrinsic_hashes: set() when get_block raises
get_block_extrinsic_hashes(block, fetch_ok) ==
    IF fetch_ok THEN block.ext_hashes ELSE {}

\* MempoolMonitor.get_pending_extrinsics: [] when rpc_request raises
get_pending_extrinsics(pending, fetch_ok) == IF fetch_ok THEN pending ELSE {}

monitorVars == <<mempool_txs, last_block_data, last_block, current_block, pc, now,
                 cycle_start_txs, fetch_failed, removed, pending_fetched>>
chainVars == <<chain_head, chain_blocks, node_pending>>
fnVars == <<fn, arg_in, result>>
alphaVars == <<env, env_changed, previous_stake_netuid, executed_stakes,
               executed_unstakes, edits, bought, sold, last_call>>
trackerVars == <<validator_hotkey, original_stake_tao, entry_price, has_stake,
                 tracker_pc, caller, attempt, unstake_result, submissions,
                 last_return>>
vars == <<monitorVars, chainVars, fnVars, alphaVars, trackerVars>>

EmptyMap == [h \in {} |-> None]
Unset == <<"unset">>
Ret(v) == <<"ret", v>>

MonitorInit ==
    /\ mempool_txs = EmptyMap
    /\ last_block_data = <<>>
    /\ last_block = None
    /\ current_block = None
    /\ pc = "head"
    /\ now = 0
    /\ cycle_start_txs = EmptyMap
    /\ fetch_failed = {}
    /\ removed = {}
    /\ pending_fetched = {}

ChainInit ==
    /\ chain_head = 0
    /\ chain_blocks = [n \in {0} |-> BlockOf({})]
    /\ node_pending = {}

\* AlphaMonitor.__init__, lines 39-43, and a .env that sets none of the keys
EnvKeys == {"STAKE_NETUID", "STAKE_AMOUNT", "UNSTAKE_NETUID", "UNSTAKE_AMOUNT"}

AlphaInit ==
    /\ env = [k \in EnvKeys |-> ""]
    /\ env_changed = TRUE
    /\ previous_stake_netuid = None
    /\ executed_stakes = {}
    /\ executed_unstakes = {}
    /\ edits = 0
    /\ bought = <<>>
    /\ sold = <<>>
    /\ last_call = [buy |-> "none", sell |-> "none"]

\* StakeTracker.__init__, lines 64-76, before main has run
TrackerInit ==
    /\ validator_hotkey = None
    /\ original_stake_tao = None
    /\ entry_price = None
    /\ has_stake = FALSE
    /\ tracker_pc = "main"
    /\ caller = "main"
    /\ attempt = 0
    /\ unstake_result = FALSE
    /\ submissions = <<>>
    /\ last_return = [op |-> "none", ret |-> "none"]

NoFn == fn = "monitor" /\ arg_in = None /\ result = Unset

Init == MonitorInit /\ ChainInit /\ AlphaInit /\ TrackerInit /\ NoFn

\* ---- the node and the chain ----
\* The monitor reads the chain at line 1164 and the pool at line 1189 (a block,
\* once produced, does not change): it cannot tell a change made later in the
\* cycle from one made just before the next read, so changes happen there.
NodeObserved == pc \in {"head", "pending"}

Submit(h) ==
    /\ NodeObserved
    /\ h \notin node_pending
    /\ \A n \in DOMAIN chain_blocks : h \notin chain_blocks[n].ext_hashes
    /\ node_pending' = node_pending \cup {h}
    /\ UNCHANGED <<chain_head, chain_blocks, monitorVars, fnVars, alphaVars, trackerVars>>

\* the node drops h from its pool: evicted, or pruned after a block held it
NodeDrop(h) ==
    /\ NodeObserved
    /\ h \in node_pending
    /\ node_pending' = node_pending \ {h}
    /\ UNCHANGED <<chain_head, chain_blocks, monitorVars, fnVars, alphaVars, trackerVars>>

\* a block holding the pending extrinsics S becomes the head; the pool is
\* pruned on its own schedule (NodeDrop)
ProduceBlock(S) ==
    /\ NodeObserved
    /\ chain_head < MaxBlock
    /\ \A h \in S : \A n \in DOMAIN chain_blocks : h \notin chain_blocks[n].ext_hashes
    /\ chain_head' = chain_head + 1
    /\ chain_blocks' = [n \in DOMAIN chain_blocks \cup {chain_head + 1} |->
                           IF n = chain_head + 1 THEN BlockOf(S) ELSE chain_blocks[n]]
    /\ UNCHANGED <<node_pending, monitorVars, fnVars, alphaVars, trackerVars>>

\* ---- the poll cycle ----
StartCycle ==
    /\ now' = now + 1
    /\ cycle_start_txs' = mempool_txs

\* the cycle is over: its locals are gone
EndCycle ==
    /\ pc' = "head"
    /\ cycle_start_txs' = EmptyMap
    /\ fetch_failed' = {}
    /\ removed' = {}
    /\ pending_fetched' = {}

\* line 1164
GetCurrentBlock ==
    /\ pc = "head"
    /\ now < MaxCycles
    /\ StartCycle
    /\ current_block' = PyInt(chain_head)
    /\ pc' = "block"
    /\ UNCHANGED <<mempool_txs, last_block_data, last_block, fetch_failed,
                   removed, pending_fetched, chainVars, fnVars, alphaVars, trackerVars>>

\* line 1164 raises: lines 1213-1215
GetCurrentBlockFails ==
    /\ pc = "head"
    /\ now < MaxCycles
    /\ now' = now + 1
    /\ UNCHANGED <<mempool_txs, last_block_data, last_block, current_block, pc,
                   cycle_start_txs, fetch_failed, removed, pending_fetched, chainVars,
                   fnVars, alphaVars, trackerVars>>

\* lines 1167-1182; hashes_ok, parse_ok: whether the fetch inside
\* get_block_extrinsic_hashes / parse_block_stake_transactions succeeds
NewBlock(hashes_ok, parse_ok) ==
    /\ pc = "block"
    /\ last_block # None
    /\ current_block[2] > last_block[2]
    /\ LET block == chain_blocks[current_block[2]]
           block_ext_hashes == get_block_extrinsic_hashes(block, hashes_ok)
       IN  /\ removed' = DOMAIN mempool_txs \cap block_ext_hashes
           /\ mempool_txs' = RemoveMined(mempool_txs, block_ext_hashes)
           /\ last_block_data' = parse_block_stake_transactions(block, parse_ok)
    /\ last_block' = current_block
    /\ fetch_failed' = fetch_failed \cup (IF hashes_ok THEN {} ELSE {"hashes"})
                                    \cup (IF parse_ok THEN {} ELSE {"block"})
    /\ pc' = "pending"
    /\ UNCHANGED <<current_block, now, cycle_start_txs, pending_fetched, chainVars, fnVars, alphaVars, trackerVars>>

\* line 1169 raises: lines 1213-1215
BlockHashFails ==
    /\ pc = "block"
    /\ last_block # None
    /\ current_block[2] > last_block[2]
    /\ EndCycle
    /\ UNCHANGED <<mempool_txs, last_block_data, last_block, current_block, now,
                   chainVars, fnVars, alphaVars, trackerVars>>

\* lines 1183-1186
FirstRun(parse_ok) ==
    /\ pc = "block"
    /\ last_block = None
    /\ last_block_data' = parse_block_stake_transactions(
                              chain_blocks[current_block[2]], parse_ok)
    /\ last_block' = current_block
    /\ fetch_failed' = fetch_failed \cup (IF parse_ok THEN {} ELSE {"block"})
    /\ pc' = "pending"
    /\ UNCHANGED <<mempool_txs, current_block, now, cycle_start_txs, removed,
                   pending_fetched, chainVars, fnVars, alphaVars, trackerVars>>

\* line 1167 and 1183 both false: no new block
NoNewBlock ==
    /\ pc = "block"
    /\ last_block # None
    /\ current_block[2] <= last_block[2]
    /\ pc' = "pending"
    /\ UNCHANGED <<mempool_txs, last_block_data, last_block, current_block, now,
                   cycle_start_txs, fetch_failed, removed, pending_fetched,
                   chainVars, fnVars, alphaVars, trackerVars>>

\* lines 1188-1205
PollPending(fetch_ok) ==
    /\ pc = "pending"
    /\ LET pending == get_pending_extrinsics(node_pending, fetch_ok)
       IN  /\ pending_fetched' = pending
           /\ mempool_txs' = RemoveDropped(AddNew(mempool_txs, pending, now), pending)
    /\ fetch_failed' = fetch_failed \cup (IF fetch_ok THEN {} ELSE {"pending"})
    /\ pc' = "display"
    /\ UNCHANGED <<last_block_data, last_block, current_block, now,
                   cycle_start_txs, removed, chainVars, fnVars, alphaVars, trackerVars>>

\* line 1208
DisplayScreen ==
    /\ pc = "display"
    /\ pc' = "sleep"
    /\ UNCHANGED <<mempool_txs, last_block_data, last_block, current_block, now,
                   cycle_start_txs, fetch_failed, removed, pending_fetched,
                   chainVars, fnVars, alphaVars, trackerVars>>

\* line 1211
Sleep ==
    /\ pc = "sleep"
    /\ EndCycle
    /\ UNCHANGED <<mempool_txs, last_block_data, last_block, current_block, now,
                   chainVars, fnVars, alphaVars, trackerVars>>

Next ==
    \/ \E h \in Fingerprints : Submit(h)
    \/ \E h \in Fingerprints : NodeDrop(h)
    \/ \E S \in SUBSET node_pending : ProduceBlock(S)
    \/ GetCurrentBlock
    \/ GetCurrentBlockFails
    \/ \E hashes_ok, parse_ok \in BOOLEAN : NewBlock(hashes_ok, parse_ok)
    \/ BlockHashFails
    \/ \E parse_ok \in BOOLEAN : FirstRun(parse_ok)
    \/ NoNewBlock
    \/ \E fetch_ok \in BOOLEAN : PollPending(fetch_ok)
    \/ DisplayScreen
    \/ Sleep

Spec == Init /\ [][Next]_vars

(***************************************************************************)
(* The pure functions are applied to inputs drawn in the initial state:    *)
(* the monitor stands still, fn names the function, arg_in is its input    *)
(* and the one step of the specification calls it.                         *)
(***************************************************************************)
Idle == MonitorInit /\ ChainInit /\ AlphaInit /\ TrackerInit

(***************************************************************************)
(* _decode_evm_transaction_data.  An input is [payload, wellformed,        *)
(* words, tx_data]: payload is the calldata as <<"bytes", values>> (None    *)
(* when the envelope carries none), words the two 32-byte words after the  *)
(* selector (<<>> when it has none), tx_data the envelope handed to the     *)
(* decoder.                                                                *)
(***************************************************************************)
MaxExtraBytes == 1

Zeros(n) == [i \in 1..n |-> 0]

\* n as a 32-byte big-endian word, n < 2^31
Word(n) ==
    Zeros(WordLen - 4)
    \o <<(n \div 16777216) % 256, (n \div 65536) % 256, (n \div 256) % 256, n % 256>>

SelStake == <<105, 78, 128, 195>>
SelRemoveStake == <<44, 82, 17, 198>>
SelOther == <<18, 52, 86, 120>>
Selectors == {SelStake, SelRemoveStake, SelOther}

EvmWords == {0, 3, 255, 256, 1000, 1500000000}

ShortPayloads == {SubSeq(SelStake, 1, n) : n \in 0..(SelectorLen - 1)}

FullPayloads ==
    {[bytes |-> sel \o Word(w1) \o Word(w2) \o Zeros(extra), words |-> <<w1, w2>>] :
        sel \in Selectors, w1 \in EvmWords, w2 \in EvmWords, extra \in 0..MaxExtraBytes}

PartialPayloads == {SelStake, SelStake \o Word(3), SelStake \o Word(3) \o Zeros(WordLen - 1)}

\* the ways an envelope carries the calldata bs
PayloadForms(bs) ==
    {<<"bytes", bs>>, <<"list", bs>>, PyStr("0x" \o HexOf(bs)), PyStr(HexOf(bs))}

Envelope(shape, field, value, nonce) ==
    [shape |-> shape,
     input |-> IF field = "input" THEN value ELSE None,
     data |-> IF field = "data" THEN value ELSE None,
     input_data |-> IF field = "input_data" THEN value ELSE None,
     nonce |-> nonce,
     action |-> PyStr("0x00000000000000000000000000000000000008ff")]

EvmShapes == {"EIP1559", "Legacy", "EIP2930"}
EvmFields == {"input", "data", "input_data"}
EvmNonces == {None, PyInt(4), PyStr("0x1f"), PyStr("n/a")}

ShortInputs(bs) ==
    {[payload |-> <<"bytes", bs>>, wellformed |-> shape # "EIP2930", words |-> <<>>,
      tx_data |-> Envelope(shape, field, form, nonce)] :
        shape \in EvmShapes, field \in EvmFields, form \in PayloadForms(bs),
        nonce \in {None, PyInt(4)}}

FullInputs(p) ==
    {[payload |-> <<"bytes", p.bytes>>, wellformed |-> shape # "EIP2930",
      words |-> p.words,
      tx_data |-> Envelope(shape, "input", form, nonce)] :
        shape \in EvmShapes,
        form \in {<<"bytes", p.bytes>>, PyStr("0x" \o HexOf(p.bytes))},
        nonce \in EvmNonces}

\* no payload at all, and values that are no calldata
BadInputs ==
    {[payload |-> None, wellformed |-> FALSE, words |-> <<>>,
      tx_data |-> Envelope(shape, "input", v, None)] :
        shape \in EvmShapes, v \in {None, PyStr("0x6"), PyStr("0xzz"), PyInt(5)}}

EvmInputs ==
    UNION {ShortInputs(bs) : bs \in ShortPayloads \cup PartialPayloads}
    \cup UNION {FullInputs(p) : p \in FullPayloads}
    \cup BadInputs

InitEvm ==
    /\ Idle
    /\ fn = "_decode_evm_transaction_data"
    /\ arg_in \in EvmInputs
    /\ result = Unset

CallDecodeEvm ==
    /\ fn = "_decode_evm_transaction_data"
    /\ result = Unset
    /\ result' = Ret(decode_evm_transaction_data(arg_in.tx_data))
    /\ UNCHANGED <<fn, arg_in, monitorVars, chainVars, alphaVars, trackerVars>>

SpecEvm == InitEvm /\ [][CallDecodeEvm]_vars

\* C8: for every envelope whose calldata is shorter than 4 bytes, or that
\* carries none, the decoder returns None (it returns a value: nothing is raised).
C8_ShortPayloadGivesNone ==
    (/\ fn = "_decode_evm_transaction_data"
     /\ result # Unset
     /\ \/ arg_in.payload = None
        \/ Len(arg_in.payload[2]) < 4)
    => result[2] = None

\* a Legacy or EIP-1559 envelope with three bytes of calldata has been decoded
C8_Witness ==
    /\ fn = "_decode_evm_transaction_data"
    /\ result # Unset
    /\ arg_in.wellformed
    /\ arg_in.payload # None
    /\ Len(arg_in.payload[2]) = 3
    /\ result[2] = None

\* C9: for a selector followed by two 32-byte words, first >= 256 and second in
\* [0,256): subnet id = second word, raw amount = first word (the display amount
\* is first / 1e9); when neither word is in [0,256) the decoder returns None.
C9_SwappedInterpretation ==
    (/\ fn = "_decode_evm_transaction_data"
     /\ result # Unset
     /\ arg_in.wellformed
     /\ Len(arg_in.words) = 2)
    => LET first == arg_in.words[1]
           second == arg_in.words[2]
       IN  /\ (first >= 256 /\ 0 <= second /\ second < 256)
                => /\ result[2] # None
                   /\ result[2][2].netuid = second
                   /\ result[2][2].amount.nano \in 0..999999999
                   /\ result[2][2].amount.whole * 1000000000
                        + result[2][2].amount.nano = first
           /\ (first >= 256 /\ second >= 256) => result[2] = None

\* (1500000000, 3) after the selector has been decoded as subnet 3, amount 1.5
C9_Witness ==
    /\ fn = "_decode_evm_transaction_data"
    /\ result # Unset
    /\ arg_in.wellformed
    /\ arg_in.words = <<1500000000, 3>>
    /\ result[2] # None
    /\ result[2][2].netuid = 3
    /\ result[2][2].amount = [whole |-> 1, nano |-> 500000000]

(***************************************************************************)
(* The poll loop.  cycle_start_txs is the tracked map when the cycle        *)
(* started, removed the fingerprints line 1177 deleted in it and            *)
(* pending_fetched the list line 1189 returned in it.                       *)
(***************************************************************************)
AfterPoll == pc \in {"display", "sleep"}

\* C1: a tracked entry whose fingerprint is found in a newly observed block's
\* extrinsic set is removed and is not in the tracked map again, whatever the
\* node's pending list holds afterwards (here: for the rest of the same cycle).
C1_IncludedNeverTrackedAgain ==
    \A h \in removed : h \notin DOMAIN mempool_txs

\* C2: an entry tracked when the cycle starts and not removed for inclusion is
\* still tracked, unchanged, until the pending list is fetched, and after the
\* fetch it is tracked exactly when the fetched list holds it: it is evicted in
\* the first cycle whose fetched list lacks it, not earlier and not later.
C2_EvictedWhenAbsent ==
    \A h \in DOMAIN cycle_start_txs \ removed :
        /\ pc \in {"block", "pending"} => h \in DOMAIN mempool_txs
        /\ AfterPoll => (h \in DOMAIN mempool_txs <=> h \in pending_fetched)
        /\ h \in DOMAIN mempool_txs => mempool_txs[h] = cycle_start_txs[h]

\* an entry first seen two cycles ago, still pending in the last cycle, is
\* absent from the list the node returned in this one and has been evicted
C2_Witness ==
    /\ pc = "display"
    /\ "pending" \notin fetch_failed
    /\ \E h \in DOMAIN cycle_start_txs \ removed :
           /\ cycle_start_txs[h].time + 2 <= now
           /\ h \notin pending_fetched
           /\ h \notin node_pending
           /\ h \notin DOMAIN mempool_txs

\* C3: after a cycle in which the pending-extrinsics fetch failed, every entry
\* tracked before the cycle (and not removed for inclusion in it) is still
\* tracked with the same first-seen time.
C3_FetchFailureKeepsEntries ==
    (AfterPoll /\ "pending" \in fetch_failed)
    => \A h \in DOMAIN cycle_start_txs \ removed :
           /\ h \in DOMAIN mempool_txs
           /\ mempool_txs[h].time = cycle_start_txs[h].time

(***************************************************************************)
(* The two groupings of block transactions: _merge_duplicate_transactions  *)
(* of the block analyzer and the last-block section of display_screen.     *)
(* An input is [transactions]: a list of at most MaxTxs transactions in    *)
(* the shape the classifier of that file produces.                         *)
(***************************************************************************)
MaxTxs == 3

\* 1.5 and 2.5
DedupAmounts == {[whole |-> 1, nano |-> 500000000], [whole |-> 2, nano |-> 500000000]}

\* <<extrinsic, type, method, address, netuid>>: one key and keys that differ
\* from it in one component
AnalyzerKeys ==
    {<<PyInt(5), "STAKE", "add_stake", "5Abc", PyInt(3)>>,
     <<PyInt(6), "STAKE", "add_stake", "5Abc", PyInt(3)>>,
     <<PyInt(5), "UNSTAKE", "batch > remove_stake", "5Abc", PyInt(3)>>,
     <<PyInt(5), "STAKE", "add_stake", "5Xyz", PyInt(3)>>,
     <<PyInt(5), "STAKE", "add_stake", "5Abc", PyStr("Unknown")>>}

\* the last one is a same-subnet move, which display_screen does not show
DisplayKeys ==
    {<<PyInt(5), "STAKE", "add_stake", "5Abc", PyInt(3)>>,
     <<PyInt(6), "STAKE", "add_stake", "5Abc", PyInt(3)>>,
     <<PyInt(5), "STAKE", "add_stake", "5Abc", None>>,
     <<PyInt(5), "UNSTAKE", "move_stake", "5Abc", PyTuple(1, 2)>>,
     <<PyInt(5), "UNSTAKE", "move_stake", "5Abc", PyTuple(2, 2)>>}

AnalyzerTx(k, amount) ==
    [block_number |-> 100, extrinsic_index |-> k[1], address |-> k[4],
     tao_amount |-> amount, netuid |-> k[5], method |-> k[3], type |-> k[2],
     hotkey |-> k[4], coldkey |-> "5Def"]

DisplayTx(k, amount, success) ==
    [extrinsic_idx |-> k[1], type |-> k[2], method |-> k[3], address |-> k[4],
     amount |-> amount, netuid |-> k[5], success |-> success]

AnalyzerTxs == {AnalyzerTx(k, a) : k \in AnalyzerKeys, a \in DedupAmounts}
\* the candidates of the first two keys also come from a failed extrinsic
FailedKeys ==
    {<<PyInt(5), "STAKE", "add_stake", "5Abc", PyInt(3)>>}

DisplayTxs ==
    {DisplayTx(k, a, TRUE) : k \in DisplayKeys, a \in DedupAmounts}
    \cup {DisplayTx(k, [whole |-> 1, nano |-> 500000000], FALSE) : k \in FailedKeys}

ListsOf(S) == UNION {[1..n -> S] : n \in 0..MaxTxs}

InitDedup ==
    /\ Idle
    /\ \/ fn = "_merge_duplicate_transactions"
          /\ arg_in \in {[transactions |-> l] : l \in ListsOf(AnalyzerTxs)}
       \/ fn = "display_screen"
          /\ arg_in \in {[transactions |-> l] : l \in ListsOf(DisplayTxs)}
    /\ result = Unset

CallMerge ==
    /\ fn = "_merge_duplicate_transactions"
    /\ result = Unset
    /\ result' = Ret(merge_duplicate_transactions(arg_in.transactions))
    /\ UNCHANGED <<fn, arg_in, monitorVars, chainVars, alphaVars, trackerVars>>

CallDisplayMerge ==
    /\ fn = "display_screen"
    /\ result = Unset
    /\ result' = Ret(display_merged_txs(arg_in.transactions))
    /\ UNCHANGED <<fn, arg_in, monitorVars, chainVars, alphaVars, trackerVars>>

NextDedup == CallMerge \/ CallDisplayMerge

SpecDedup == InitDedup /\ [][NextDedup]_vars

\* the grouping key as the five fields themselves, and the amount, for either
\* shape of transaction
DedupKey(tx) ==
    IF fn = "display_screen"
    THEN <<tx.extrinsic_idx, tx.type, tx.method, tx.address, tx.netuid>>
    ELSE <<tx.extrinsic_index, tx.type, tx.method, tx.address, tx.netuid>>

DedupAmount(tx) == IF fn = "display_screen" THEN tx.amount ELSE tx.tao_amount

\* the candidates the grouping receives: display_screen groups what is left
\* after the same-subnet skip of lines 1007-1017
DedupInput ==
    IF fn = "display_screen"
    THEN SelectSeq(arg_in.transactions, LAMBDA tx : ~SkippedInDisplay(tx))
    ELSE arg_in.transactions

RECURSIVE SumFor(_, _, _)
SumFor(txs, keys, i) ==
    IF i > Len(txs) THEN ZeroTao
    ELSE IF DedupKey(txs[i]) \in keys
      THEN AddTao(DedupAmount(txs[i]), SumFor(txs, keys, i + 1))
    ELSE SumFor(txs, keys, i + 1)

KeysOf(txs) == {DedupKey(txs[i]) : i \in 1..Len(txs)}

\* C5: the output of the grouping has exactly one entry per distinct key
\* (extrinsic, type, method, address, netuid) of its input, the entry's amount is
\* the sum of the amounts of the input candidates with that key, and the total
\* over the output is the total over the input.
C5_OneEntryPerKeySummed ==
    (fn \in {"_merge_duplicate_transactions", "display_screen"} /\ result # Unset)
    => LET out == result[2]
       IN  /\ \A i, j \in 1..Len(out) : DedupKey(out[i]) = DedupKey(out[j]) => i = j
           /\ KeysOf(out) = KeysOf(DedupInput)
           /\ \A j \in 1..Len(out) :
                  DedupAmount(out[j]) = SumFor(DedupInput, {DedupKey(out[j])}, 1)
           /\ SumFor(out, KeysOf(out), 1) = SumFor(DedupInput, KeysOf(DedupInput), 1)

\* 1.5 and 2.5 under the key (5, STAKE, add_stake, 5Abc, 3) gave one entry of 4.0
C5_Witness ==
    /\ fn = "_merge_duplicate_transactions"
    /\ result # Unset
    /\ Len(arg_in.transactions) = 2
    /\ \A i \in 1..2 : DedupKey(arg_in.transactions[i])
                          = <<PyInt(5), "STAKE", "add_stake", "5Abc", PyInt(3)>>
    /\ arg_in.transactions[1].tao_amount = [whole |-> 1, nano |-> 500000000]
    /\ arg_in.transactions[2].tao_amount = [whole |-> 2, nano |-> 500000000]
    /\ Len(result[2]) = 1
    /\ result[2][1].tao_amount = [whole |-> 4, nano |-> 0]

(***************************************************************************)
(* BlockAnalyzer.parse_nested_call on call trees.  An input is [call]: a   *)
(* call whose 'calls' / 'call' arguments nest other calls at most MaxNest  *)
(* levels deep.                                                            *)
(***************************************************************************)
MaxNest == 2

\* <<module, function>> of the wrapping calls
WrapperHeads ==
    {<<"Utility", "batch">>, <<"Proxy", "proxy">>, <<"Multisig", "as_multi">>,
     <<"Council", "as_derivative">>, <<"Sudo", "sudo">>, <<"XcmPallet", "send">>}

LeafTransfer ==
    Call("Balances", "transfer",
         <<Arg("dest", PyStr("5Fgh")), Arg("value", PyInt(1000))>>)

LeafAddStake ==
    Call("SubtensorModule", "add_stake",
         <<Arg("hotkey", PyStr("5GrwvaEF5z")), Arg("netuid", PyInt(3)),
           Arg("amount_staked", PyInt(1500000000))>>)

EmptyWrappers ==
    {Call(h[1], h[2], <<Arg("calls", <<"calls", <<>> >>)>>) : h \in WrapperHeads}

\* the wrappers of one child c: 'calls' holding c alone, 'calls' holding a
\* transfer and then c, and a single 'call' after another argument
WrappersOf(c) ==
    {Call(h[1], h[2], <<Arg("calls", <<"calls", <<c>> >>)>>) : h \in WrapperHeads}
    \cup {Call(h[1], h[2], <<Arg("calls", <<"calls", <<LeafTransfer, c>> >>)>>) :
             h \in WrapperHeads}
    \cup {Call(h[1], h[2], <<Arg("real", PyStr("5Def")), Arg("call", <<"call", c>>)>>) :
             h \in WrapperHeads}

RECURSIVE CallTrees(_)
CallTrees(depth) ==
    IF depth = 0 THEN {LeafTransfer, LeafAddStake} \cup EmptyWrappers
    ELSE {LeafTransfer, LeafAddStake} \cup EmptyWrappers
         \cup UNION {WrappersOf(c) : c \in CallTrees(depth - 1)}

InitResolver ==
    /\ Idle
    /\ fn = "parse_nested_call"
    /\ arg_in \in {[call |-> c] : c \in CallTrees(MaxNest)}
    /\ result = Unset

CallParseNested ==
    /\ fn = "parse_nested_call"
    /\ result = Unset
    /\ result' = Ret(parse_nested_call(arg_in.call))
    /\ UNCHANGED <<fn, arg_in, monitorVars, chainVars, alphaVars, trackerVars>>

SpecResolver == InitResolver /\ [][CallParseNested]_vars

\* a wrapper call of the specification: a wrapper module or a wrapper
\* function spelling
IsWrapperCall(call) ==
    \/ call.call_module \in {"Utility", "Proxy", "Multisig", "Sudo", "XcmPallet"}
    \/ call.call_function \in {"batch", "batch_all", "force_batch", "proxy",
                               "as_multi", "as_derivative"}

\* every call of the tree is a wrapper
RECURSIVE WrappersOnly(_)
WrappersOnly(call) ==
    /\ IsWrapperCall(call)
    /\ \A i \in 1..Len(call.call_args) :
           LET v == call.call_args[i].value
           IN  v[1] \in {"calls", "call"}
                 => \A k \in 1..Len(CallsOf(v)) : WrappersOnly(CallsOf(v)[k])

\* C6: for a call tree made only of wrapper calls, with no staking-module call
\* anywhere inside, the resolver returns (None, "<outer function> (wrapper)",
\* False) and does not raise.
C6_WrapperOnlyKeepsMethod ==
    (fn = "parse_nested_call" /\ result # Unset /\ WrappersOnly(arg_in.call))
    => result[2] = <<None, PyStr(arg_in.call.call_function \o " (wrapper)"), FALSE>>

(***************************************************************************)
(* The two subnet extractions on move/swap/transfer calls: _extract_netuid *)
(* of the mempool monitor and _extract_netuid_from_call of the block       *)
(* analyzer.  An input is [call_function, call_args, origin, dest]: the    *)
(* call carries one origin-side argument of value origin, one destination- *)
(* side argument of value dest, and at most MaxOtherArgs other arguments.  *)
(***************************************************************************)
MaxOtherArgs == 1

\* <<origin, destination>>
NetuidPairs == {<<1, 2>>, <<0, 255>>}

OtherArgs ==
    {Arg("origin_hotkey", PyStr("5GrwvaEF5z")),
     Arg("alpha_amount", PyInt(500000000)),
     Arg("netuid", PyInt(5))}

OtherArgLists == UNION {[1..n -> OtherArgs] : n \in 0..MaxOtherArgs}

\* the two arguments in both orders, the other arguments before or after them
ArgOrders(o, d, others) ==
    {others \o <<o, d>>, others \o <<d, o>>, <<o, d>> \o others, <<d, o>> \o others}

NetuidInputs ==
    UNION {
        {[call_function |-> f, call_args |-> a, origin |-> v[1], dest |-> v[2]] :
            a \in ArgOrders(Arg(n[1], PyInt(v[1])), Arg(n[2], PyInt(v[2])), n[3])} :
        f \in MoveSwapTransfer,
        n \in OriginNames \X DestNames \X OtherArgLists,
        v \in NetuidPairs}

InitNetuid ==
    /\ Idle
    /\ fn \in {"_extract_netuid", "_extract_netuid_from_call"}
    /\ arg_in \in NetuidInputs
    /\ result = Unset

CallExtractNetuid ==
    /\ fn = "_extract_netuid"
    /\ result = Unset
    /\ result' = Ret(extract_netuid(arg_in.call_args, arg_in.call_function))
    /\ UNCHANGED <<fn, arg_in, monitorVars, chainVars, alphaVars, trackerVars>>

CallExtractNetuidFromCall ==
    /\ fn = "_extract_netuid_from_call"
    /\ result = Unset
    /\ result' = Ret(extract_netuid_from_call(
                         Call("SubtensorModule", arg_in.call_function, arg_in.call_args),
                         arg_in.call_function))
    /\ UNCHANGED <<fn, arg_in, monitorVars, chainVars, alphaVars, trackerVars>>

NextNetuid == CallExtractNetuid \/ CallExtractNetuidFromCall

SpecNetuid == InitNetuid /\ [][NextNetuid]_vars

\* C7: for a move/swap/transfer call (or _limit variant) with one named
\* origin-side and one named destination-side argument, either extraction
\* returns exactly (origin value, destination value), in every order of the two
\* arguments and with every other argument present.
C7_NamedPairReturned ==
    (fn \in {"_extract_netuid", "_extract_netuid_from_call"} /\ result # Unset)
    => result[2] = PyTuple(arg_in.origin, arg_in.dest)

(***************************************************************************)
(* BlockAnalyzer.get_current_block_data on one block.  An input is         *)
(* [block_number, block, events, uids, fetch_ok]: the block holds one      *)
(* extrinsic (number 0) and at most MaxEvents events.                      *)
(***************************************************************************)
MaxEvents == 2

StakeCall(function, args) == Call("SubtensorModule", function, args)

MoveArgs(origin, dest) ==
    <<Arg("origin_hotkey", PyStr("5GrwvaEF5z")),
      Arg("destination_hotkey", PyStr("5HotKeyTwo")),
      Arg("origin_netuid", PyInt(origin)), Arg("destination_netuid", PyInt(dest)),
      Arg("alpha_amount", PyInt(500000000))>>

AddStakeNetuid3 ==
    StakeCall("add_stake", <<Arg("hotkey", PyStr("5Abc")), Arg("netuid", PyInt(3))>>)

\* Utility.batch_all wrapping SubtensorModule.remove_stake(netuid=7)
BatchAllRemoveStake7 ==
    Call("Utility", "batch_all",
         <<Arg("calls", <<"calls",
             <<StakeCall("remove_stake",
                         <<Arg("hotkey", PyStr("5Abc")), Arg("netuid", PyInt(7)),
                           Arg("amount_unstaked", PyInt(500000000))>>)>> >>)>>)

BlockCalls ==
    {AddStakeNetuid3,
     StakeCall("add_stake", <<Arg("hotkey", PyStr("5Abc")), Arg("netuid", PyInt(3)),
                              Arg("amount_staked", PyInt(2000000000))>>),
     StakeCall("add_stake", <<Arg("hotkey", PyStr("5Abc")),
                              Arg("amount_staked", PyInt(500000000))>>),
     StakeCall("move_stake", MoveArgs(3, 3)),
     StakeCall("move_stake", MoveArgs(1, 2)),
     StakeCall("swap_stake", MoveArgs(3, 3)),
     Call("Utility", "batch",
          <<Arg("calls", <<"calls", <<StakeCall("move_stake", MoveArgs(3, 3))>> >>)>>),
     BatchAllRemoveStake7,
     LeafTransfer,
     Call("Ethereum", "transact", <<>>)}

StakeEvent(event_id, hotkey, rao, length, slot4, idx) ==
    [module_id |-> "SubtensorModule", event_id |-> event_id,
     attributes |-> [length |-> length, hotkey |-> hotkey, coldkey |-> "5Def",
                     amount_rao |-> rao, slot4 |-> slot4],
     extrinsic_idx |-> idx]

\* hotkey "5Abc", coldkey "5Def", amount_rao 1_000_000_000, StakeAdded
ScenarioEvent == StakeEvent("StakeAdded", "5Abc", 1000000000, 3, Absent, PyInt(0))

BlockEventPool ==
    {ScenarioEvent,
     StakeEvent("StakeAdded", "5Abc", 500000000, 3, Absent, PyInt(0)),
     StakeEvent("StakeRemoved", "5Abc", 1000000000, 3, Absent, PyInt(0)),
     StakeEvent("StakeAdded", "5GrwvaEF5z", 1500000000, 3, Absent, PyInt(0)),
     StakeEvent("StakeAdded", "5Abc", 1000000000, 5, PyInt(9), PyInt(0)),
     StakeEvent("StakeAdded", "5Abc", 1000000000, 2, Absent, PyInt(0)),
     StakeEvent("StakeAdded", "5Abc", 1000000000, 3, Absent, None),
     [module_id |-> "System", event_id |-> "ExtrinsicSuccess",
      attributes |-> [length |-> 0, hotkey |-> "", coldkey |-> "",
                      amount_rao |-> 0, slot4 |-> Absent],
      extrinsic_idx |-> PyInt(0)]}

\* storage SubtensorModule.Uids: the subnets a hotkey is registered on
UidsMaps ==
    {[h \in {"5Abc", "5GrwvaEF5z"} |-> IF h = "5Abc" THEN <<4>> ELSE r] :
        r \in {<<>>, <<3>>, <<1, 2>>, <<100>>}}

BlockInputs ==
    {[block_number |-> 100,
      block |-> [extrinsics |-> <<[has_call |-> TRUE, call |-> c]>>],
      events |-> e, uids |-> u, fetch_ok |-> ok] :
        c \in BlockCalls,
        e \in UNION {[1..n -> BlockEventPool] : n \in 0..MaxEvents},
        u \in UidsMaps,
        ok \in BOOLEAN}

InitBlock ==
    /\ Idle
    /\ fn = "get_current_block_data"
    /\ arg_in \in BlockInputs
    /\ result = Unset

CallGetCurrentBlockData ==
    /\ fn = "get_current_block_data"
    /\ result = Unset
    /\ result' = Ret(get_current_block_data(arg_in.block_number, arg_in.block,
                                            arg_in.events, arg_in.uids,
                                            arg_in.fetch_ok))
    /\ UNCHANGED <<fn, arg_in, monitorVars, chainVars, alphaVars, trackerVars>>

SpecBlock == InitBlock /\ [][CallGetCurrentBlockData]_vars

\* C4: the output for a block holds no transaction of a move_stake, swap_stake
\* or transfer_stake call (or _limit variant), direct or nested in a wrapper,
\* whose origin subnet equals its destination subnet.
C4_NoSameSubnetMove ==
    (fn = "get_current_block_data" /\ result # Unset)
    => \A j \in 1..Len(result[2]) :
           LET tx == result[2][j]
           IN  ~(/\ ContainsAny(tx.method, {"move_stake", "swap_stake", "transfer_stake"})
                 /\ IsTuple2(tx.netuid)
                 /\ tx.netuid[2] = tx.netuid[3])

\* the events of the input that the output transaction tx stands for
RECURSIVE EventAmountSum(_, _)
EventAmountSum(tx, i) ==
    LET e == arg_in.events[i]
        rest == EventAmountSum(tx, i + 1)
    IN  IF i > Len(arg_in.events) THEN ZeroTao
        ELSE IF /\ e.module_id = "SubtensorModule"
                /\ e.event_id = (IF tx.type = "STAKE" THEN "StakeAdded" ELSE "StakeRemoved")
                /\ e.attributes.length >= 3
                /\ e.extrinsic_idx = tx.extrinsic_index
                /\ e.attributes.hotkey = tx.address
                /\ EventTransaction(arg_in.block_number, arg_in.block, e,
                                    arg_in.uids).netuid = tx.netuid
          THEN AddTao([whole |-> e.attributes.amount_rao \div 1000000000,
                       nano |-> e.attributes.amount_rao % 1000000000], rest)
        ELSE rest

\* C10: the amount of every output transaction is the payload amount of its
\* event (the third attribute, in RAO, divided by 1e9; summed over the events
\* merged into it), whatever the arguments of the extrinsic's call; a StakeAdded
\* event of 1_000_000_000 RAO with SubtensorModule.add_stake(netuid=3) gives
\* type STAKE, netuid 3, amount 1.0 and method add_stake.
C10_AmountFromEvent ==
    (fn = "get_current_block_data" /\ result # Unset /\ arg_in.fetch_ok)
    => /\ \A j \in 1..Len(result[2]) :
              result[2][j].tao_amount = EventAmountSum(result[2][j], 1)
       /\ (arg_in.events = <<ScenarioEvent>>
           /\ arg_in.block.extrinsics[1].call = AddStakeNetuid3)
          => /\ Len(result[2]) = 1
             /\ result[2][1].type = "STAKE"
             /\ result[2][1].netuid = PyInt(3)
             /\ result[2][1].tao_amount = [whole |-> 1, nano |-> 0]
             /\ result[2][1].method = "add_stake"

\* the event of 1_000_000_000 RAO on a call whose amount_staked is 2_000_000_000
\* has given a transaction of amount 1.0
C10_Witness ==
    /\ fn = "get_current_block_data"
    /\ result # Unset
    /\ arg_in.fetch_ok
    /\ arg_in.events = <<ScenarioEvent>>
    /\ \E i \in 1..Len(arg_in.block.extrinsics[1].call.call_args) :
           arg_in.block.extrinsics[1].call.call_args[i]
               = Arg("amount_staked", PyInt(2000000000))
    /\ Len(result[2]) = 1
    /\ result[2][1].tao_amount = [whole |-> 1, nano |-> 0]
    /\ result[2][1].netuid = PyInt(3)

\* C11: the StakeAdded event of the scenario on an extrinsic that is
\* Utility.batch_all wrapping SubtensorModule.remove_stake(netuid=7) gives one
\* transaction with method path batch_all > remove_stake, kind REMOVE (type
\* UNSTAKE) and netuid 7.
C11_KindFollowsInnermostCall ==
    (/\ fn = "get_current_block_data"
     /\ result # Unset
     /\ arg_in.fetch_ok
     /\ arg_in.events = <<ScenarioEvent>>
     /\ arg_in.block.extrinsics[1].call = BatchAllRemoveStake7)
    => /\ Len(result[2]) = 1
       /\ result[2][1].method = "batch_all > remove_stake"
       /\ result[2][1].netuid = PyInt(7)
       /\ result[2][1].type = "UNSTAKE"

(***************************************************************************)
(* MempoolMonitor.parse_block_stake_transactions on one block.  An input   *)
(* is [block, fetch_ok]: the block holds one extrinsic (number 0) and at   *)
(* most MaxBlockEvents events.                                             *)
(***************************************************************************)
MaxBlockEvents == 2

SystemEvent(event_id, idx) ==
    [module_id |-> "System", event_id |-> event_id,
     attributes |-> [length |-> 0, hotkey |-> "", coldkey |-> "",
                     amount_rao |-> 0, slot4 |-> Absent],
     extrinsic_idx |-> idx]

\* StakeAdded with the extended payload: slot 4 carries netuid 9
ExtendedEvent == StakeEvent("StakeAdded", "5Abc", 1000000000, 5, PyInt(9), PyInt(0))

\* SubtensorModule.add_stake without a netuid argument
AddStakeNoNetuid ==
    StakeCall("add_stake", <<Arg("hotkey", PyStr("5Abc")),
                             Arg("amount_staked", PyInt(500000000))>>)

ParseBlockCalls ==
    {AddStakeNetuid3, AddStakeNoNetuid, BatchAllRemoveStake7, LeafTransfer,
     Call("Ethereum", "transact", <<>>)}

ParseBlockEventPool ==
    {ScenarioEvent,
     ExtendedEvent,
     StakeEvent("StakeRemoved", "5Abc", 500000000, 3, Absent, PyInt(0)),
     StakeEvent("StakeAdded", "5Abc", 1000000000, 3, Absent, None),
     SystemEvent("ExtrinsicSuccess", PyInt(0)),
     SystemEvent("ExtrinsicFailed", PyInt(0))}

ParseBlockInputs ==
    {[block |-> [ext_hashes |-> {},
                 extrinsics |-> <<[has_call |-> TRUE, call |-> c]>>,
                 events |-> e],
      fetch_ok |-> ok] :
        c \in ParseBlockCalls,
        e \in UNION {[1..n -> ParseBlockEventPool] : n \in 0..MaxBlockEvents},
        ok \in BOOLEAN}

InitParseBlock ==
    /\ Idle
    /\ fn = "parse_block_stake_transactions"
    /\ arg_in \in ParseBlockInputs
    /\ result = Unset

CallParseBlock ==
    /\ fn = "parse_block_stake_transactions"
    /\ result = Unset
    /\ result' = Ret(parse_block_stake_transactions(arg_in.block, arg_in.fetch_ok))
    /\ UNCHANGED <<fn, arg_in, monitorVars, chainVars, alphaVars, trackerVars>>

SpecParseBlock == InitParseBlock /\ [][CallParseBlock]_vars

\* a System ExtrinsicFailed event of the block shares the extrinsic index
HasExtrinsicFailed(events, extrinsic_idx) ==
    \E i \in 1..Len(events) :
        /\ events[i].module_id = "System"
        /\ events[i].event_id = "ExtrinsicFailed"
        /\ events[i].extrinsic_idx = extrinsic_idx

\* C12: every transaction of the output has success = TRUE exactly when the
\* block's events hold no System ExtrinsicFailed event with the extrinsic index
\* of its stake event; in particular success is TRUE when no System event at
\* all shares that index.
C12_SuccessIffNoExtrinsicFailed ==
    (fn = "parse_block_stake_transactions" /\ result # Unset)
    => \A j \in 1..Len(result[2]) :
           result[2][j].success
               <=> ~HasExtrinsicFailed(arg_in.block.events, result[2][j].extrinsic_idx)

\* C18: when the call of the originating extrinsic yields a subnet, every
\* transaction of that extrinsic carries the subnet resolved from the call,
\* also when the event payload's extended slot holds a valid netuid.
C18_CallNetuidBeforeEventNetuid ==
    LET call == arg_in.block.extrinsics[1].call
        from_call == extract_netuid(call.call_args, call.call_function)
    IN  (/\ fn = "parse_block_stake_transactions"
         /\ result # Unset
         /\ arg_in.fetch_ok
         /\ call.call_module = "SubtensorModule"
         /\ from_call # None)
        => \A j \in 1..Len(result[2]) :
               result[2][j].extrinsic_idx = PyInt(0) => result[2][j].netuid = from_call

\* C13: a block whose extrinsic is SubtensorModule.add_stake without any netuid
\* argument, with no event payload slot and no hotkey registration naming
\* subnet 0, never yields a transaction with the concrete subnet id 0.
C13_NoFabricatedNetuid ==
    (/\ fn = "get_current_block_data"
     /\ result # Unset
     /\ arg_in.block.extrinsics[1].call = AddStakeNoNetuid)
    => \A j \in 1..Len(result[2]) : result[2][j].netuid # PyInt(0)

(***************************************************************************)
(* MempoolMonitor.parse_extrinsic on one pending blob.  An input is        *)
(* [extrinsic, shape]: what the codec gives for the blob, and the kind of  *)
(* blob it was built as:                                                   *)
(*   "undecodable"  decode_scale raises                                    *)
(*   "no_call"      the decoded value holds no call                        *)
(*   "evm_short"    Ethereum.transact, calldata shorter than 4 + 64 bytes  *)
(*   "evm_invalid"  Ethereum.transact, no calldata or no valid two words   *)
(*   "evm_stake"    Ethereum.transact, calldata of a stake operation       *)
(*   "native"       any other call, nested up to MaxParseNest wrappers     *)
(***************************************************************************)
MaxParseNest == 1

EvmCall(tx_data) == Call("Ethereum", "transact", <<Arg("transaction", <<"tx", tx_data>>)>>)

EvmShortCalls ==
    {EvmCall(Envelope(shape, "input", <<"bytes", bs>>, None)) :
        shape \in {"EIP1559", "Legacy"}, bs \in ShortPayloads \cup PartialPayloads}

EvmInvalidCalls ==
    {EvmCall(Envelope("EIP1559", "input", v, None)) :
        v \in {None, PyStr("0xzz"), PyInt(5),
               <<"bytes", SelStake \o Word(1000) \o Word(1000)>>,
               <<"bytes", SelStake \o Word(3) \o Word(0)>>}}
    \cup {EvmCall(Envelope("EIP2930", "input",
                           <<"bytes", SelStake \o Word(3) \o Word(1500000000)>>, None)),
          Call("Ethereum", "transact", <<>>)}

EvmStakeCalls ==
    {EvmCall(Envelope(shape, "input", <<"bytes", sel \o Word(w[1]) \o Word(w[2])>>, n)) :
        shape \in {"EIP1559", "Legacy"}, sel \in Selectors,
        w \in {<<3, 1500000000>>, <<1500000000, 3>>}, n \in {None, PyInt(4)}}

NativeCalls ==
    CallTrees(MaxParseNest)
    \cup {AddStakeNoNetuid, StakeCall("move_stake", MoveArgs(1, 2)),
          StakeCall("register", <<Arg("netuid", PyInt(3)), Arg("hotkey", PyStr("5Abc"))>>),
          Call("Ethereum", "call", <<>>)}

ParseInputs ==
    {[extrinsic |-> [decodes |-> TRUE, has_call |-> TRUE, call |-> c,
                     signer |-> s, nonce |-> n],
      shape |-> "native"] :
        c \in NativeCalls, s \in {None, PyStr("5Def")}, n \in {None, PyInt(7)}}
    \cup {[extrinsic |-> Extrinsic(c, PyStr("5Def"), PyInt(7)), shape |-> "evm_short"] :
             c \in EvmShortCalls}
    \cup {[extrinsic |-> Extrinsic(c, PyStr("5Def"), PyInt(7)), shape |-> "evm_invalid"] :
             c \in EvmInvalidCalls}
    \cup {[extrinsic |-> Extrinsic(c, PyStr("5Def"), PyInt(7)), shape |-> "evm_stake"] :
             c \in EvmStakeCalls}
    \cup {[extrinsic |-> [decodes |-> d, has_call |-> FALSE, call |-> c,
                          signer |-> None, nonce |-> None],
           shape |-> IF d THEN "no_call" ELSE "undecodable"] :
             d \in BOOLEAN, c \in {LeafTransfer, LeafAddStake}}

InitParse ==
    /\ Idle
    /\ fn = "parse_extrinsic"
    /\ arg_in \in ParseInputs
    /\ result = Unset

CallParseExtrinsic ==
    /\ fn = "parse_extrinsic"
    /\ result = Unset
    /\ result' = Ret(parse_decoded(arg_in.extrinsic))
    /\ UNCHANGED <<fn, arg_in, monitorVars, chainVars, alphaVars, trackerVars>>

SpecParse == InitParse /\ [][CallParseExtrinsic]_vars

\* a stake call of the staking module
IsDirectStake(call) ==
    call.call_module = "SubtensorModule" /\ call.call_function \in StakeOperations

\* some call nested in the 'calls'/'call' arguments of call, at any depth, is a
\* stake call of the staking module
RECURSIVE ContainsStake(_)
ContainsStake(call) ==
    \E i \in 1..Len(call.call_args) :
        /\ call.call_args[i].dict
        /\ call.call_args[i].name \in {"calls", "call"}
        /\ \E k \in 1..Len(CallsOf(call.call_args[i].value)) :
               \/ IsDirectStake(CallsOf(call.call_args[i].value)[k])
               \/ ContainsStake(CallsOf(call.call_args[i].value)[k])

\* C14: parse_extrinsic never raises; it returns None for an undecodable blob,
\* a blob without a call, short or invalid EVM calldata and a call that neither
\* is nor contains a stake call; it returns a record only for an EVM stake
\* operation that decodes, a direct stake call of the staking module, or a
\* wrapper that contains one.
C14_ParseNeverRaises ==
    (fn = "parse_extrinsic" /\ result # Unset)
    => LET r == result[2]
           call == arg_in.extrinsic.call
       IN  /\ r # Raise
           /\ r = None \/ r[1] = "parsed"
           /\ arg_in.shape \in {"undecodable", "no_call", "evm_short", "evm_invalid"}
              => r = None
           /\ (arg_in.shape = "native" /\ ~IsDirectStake(call) /\ ~ContainsStake(call))
              => r = None
           /\ r # None
              => \/ arg_in.shape = "evm_stake"
                 \/ arg_in.shape = "native" /\ IsDirectStake(call)
                 \/ /\ arg_in.shape = "native"
                    /\ call.call_module \in {"Utility", "Proxy", "Multisig", "Sudo", "XcmPallet"}
                    /\ ContainsStake(call)

\* an undecodable blob has been classified as not a stake operation
C14_Witness ==
    /\ fn = "parse_extrinsic"
    /\ arg_in.shape = "undecodable"
    /\ result = Ret(None)

\* C15: when classifying the newly observed block N fails in a cycle, block N is
\* not recorded as the last processed block (with an empty transaction list),
\* so that a later cycle fetches and classifies it again.
C15_FailedBlockNotRecorded ==
    ~(/\ pc \in {"pending", "display", "sleep"}
      /\ "block" \in fetch_failed
      /\ last_block = current_block
      /\ last_block_data = <<>>
      /\ parse_block_stake_transactions(chain_blocks[current_block[2]], TRUE) # <<>>)

(***************************************************************************)
(* AlphaMonitor (alpha_manual_trading.py): the .env file is edited, the    *)
(* monitor loop notices the change and calls process_changes.  An amount   *)
(* is <<"float", m>> with m in thousandths of a TAO.                       *)
(***************************************************************************)
MaxEdits == 3

\* MIN_STAKE_AMOUNT = 0.01, in thousandths
MIN_STAKE_AMOUNT == 10

IsBlank(s) == \A i \in 1..Len(s) : SubSeq(s, i, i) = " "

RECURSIVE PadRight(_, _)
PadRight(s, n) == IF Len(s) >= n THEN s ELSE PadRight(s \o "0", n)

\* float(s) for a decimal text of at most three decimals; None stands for
\* ValueError
FloatOf(s) ==
    LET dots == {i \in 1..Len(s) : SubSeq(s, i, i) = "."}
        d == MinOf(dots)
        whole == SubSeq(s, 1, d - 1)
        frac == SubSeq(s, d + 1, Len(s))
    IN  IF dots = {}
        THEN (IF AllDigits(s) THEN PyFloat(DigitsValue(s, 0) * 1000) ELSE None)
        ELSE IF /\ Cardinality(dots) = 1
                /\ Len(whole) + Len(frac) > 0
                /\ Len(whole) = 0 \/ AllDigits(whole)
                /\ Len(frac) = 0 \/ AllDigits(frac)
                /\ Len(frac) <= 3
          THEN PyFloat(DigitsValue(whole, 0) * 1000 + DigitsValue(PadRight(frac, 3), 0))
        ELSE None

\* lines 77-85: int(v) if v else None
EnvInt(s) == IF s = "" THEN None ELSE IntOf(PyStr(s))

\* lines 87-95: float(v) if v and v.strip() else None
EnvFloat(s) == IF s = "" \/ IsBlank(s) THEN None ELSE FloatOf(s)

\* AlphaMonitor.get_env_values
get_env_values(e) ==
    [stake_netuid |-> EnvInt(e["STAKE_NETUID"]),
     stake_amount |-> EnvFloat(e["STAKE_AMOUNT"]),
     unstake_netuid |-> EnvInt(e["UNSTAKE_NETUID"]),
     unstake_amount |-> EnvFloat(e["UNSTAKE_AMOUNT"])]

\* truth value of an amount: None and 0.0 are falsy
AmountTruthy(a) == a # None /\ a[2] # 0

AboveMinimum(a) == a # None /\ a[2] >= MIN_STAKE_AMOUNT

\* lines 445-474: [previous, executed, buy] after the stake part; buy is
\* "none", "failed" or "ok"
StakeStep(previous, executed, netuid, amount, buy_ok) ==
    LET operation_key == <<netuid, amount>>
        keep(b) == [previous |-> previous, executed |-> executed, buy |-> b]
    IN  IF netuid = None THEN keep("none")
        ELSE IF netuid # previous
          THEN (IF AboveMinimum(amount)
                THEN (IF operation_key \in executed THEN keep("none")
                      ELSE IF buy_ok
                        THEN [previous |-> netuid,
                              executed |-> executed \cup {operation_key},
                              buy |-> "ok"]
                      ELSE keep("failed"))
                ELSE IF amount = None \/ amount[2] = 0
                  THEN [previous |-> netuid, executed |-> executed, buy |-> "none"]
                ELSE keep("none"))
        ELSE IF AmountTruthy(amount) /\ operation_key \notin executed
                /\ AboveMinimum(amount)
          THEN (IF buy_ok
                THEN [previous |-> previous,
                      executed |-> executed \cup {operation_key}, buy |-> "ok"]
                ELSE keep("failed"))
        ELSE keep("none")

AllAmount == PyStr("ALL")

\* line 479
UnstakeKey(unstake_netuid, unstake_amount) ==
    <<unstake_netuid, IF AmountTruthy(unstake_amount) THEN unstake_amount ELSE AllAmount>>

\* lines 484-485 without the add: nothing is remembered
MarkUnstakedNever(executed, operation_key, success) == executed

\* lines 484-485 without the test of success: a failed unstake is remembered
MarkUnstakedAlways(executed, operation_key, success) == executed \cup {operation_key}

\* lines 484-485
MarkUnstaked(executed, operation_key, success) ==
    IF success THEN executed \cup {operation_key} ELSE executed

\* lines 477-487: [executed, sell]; sell is "none", "skipped", "failed" or "ok"
UnstakeStep(executed, netuid, amount, sell_ok) ==
    LET operation_key == UnstakeKey(netuid, amount)
    IN  IF netuid = None THEN [executed |-> executed, sell |-> "none"]
        ELSE IF operation_key \in executed
          THEN [executed |-> executed, sell |-> "skipped"]
        ELSE [executed |-> MarkUnstaked(executed, operation_key, sell_ok),
              sell |-> IF sell_ok THEN "ok" ELSE "failed"]

\* the unstake the operator asked for: the netuid and the amount, an empty
\* amount being "all"
Combination(unstake_netuid, unstake_amount) ==
    <<unstake_netuid, IF unstake_amount = None THEN AllAmount ELSE unstake_amount>>

\* the texts written to .env
EnvTexts(key) ==
    IF key = "STAKE_NETUID" THEN {"", "3", "5"}
    ELSE IF key = "STAKE_AMOUNT" THEN {"", "1", "2.5", "0.005"}
    ELSE IF key = "UNSTAKE_NETUID" THEN {"", "7"}
    ELSE {"", " ", "1.5", "1.50", "0", "all"}

\* the operator saves .env with one key set to text (the same text again
\* included: st_mtime changes all the same)
EditEnv(key, text) ==
    /\ fn = "process_changes"
    /\ edits < MaxEdits
    /\ edits' = edits + 1
    /\ env' = [env EXCEPT ![key] = text]
    /\ env_changed' = TRUE
    /\ UNCHANGED <<previous_stake_netuid, executed_stakes, executed_unstakes, bought,
                   sold, last_call, monitorVars, chainVars, fnVars, trackerVars>>

\* monitor_loop, lines 501-503: env_file_changed() and then process_changes;
\* buy_ok, sell_ok: what buy_alpha_tokens / sell_alpha_tokens return
ProcessChanges(buy_ok, sell_ok) ==
    /\ fn = "process_changes"
    /\ env_changed
    /\ env_changed' = FALSE
    /\ LET v == get_env_values(env)
           st == StakeStep(previous_stake_netuid, executed_stakes,
                           v.stake_netuid, v.stake_amount, buy_ok)
           un == UnstakeStep(executed_unstakes, v.unstake_netuid, v.unstake_amount,
                             sell_ok)
       IN  /\ previous_stake_netuid' = st.previous
           /\ executed_stakes' = st.executed
           /\ executed_unstakes' = un.executed
           /\ bought' = IF st.buy = "ok"
                        THEN Append(bought, <<v.stake_netuid, v.stake_amount>>)
                        ELSE bought
           /\ sold' = IF un.sell = "ok"
                      THEN Append(sold, Combination(v.unstake_netuid, v.unstake_amount))
                      ELSE sold
           /\ last_call' = [buy |-> st.buy, sell |-> un.sell]
    /\ UNCHANGED <<env, edits, monitorVars, chainVars, fnVars, trackerVars>>

InitAlpha ==
    /\ Idle
    /\ fn = "process_changes"
    /\ arg_in = None
    /\ result = Unset

NextAlpha ==
    \/ \E key \in EnvKeys : \E text \in EnvTexts(key) : EditEnv(key, text)
    \/ \E buy_ok, sell_ok \in BOOLEAN : ProcessChanges(buy_ok, sell_ok)

SpecAlpha == InitAlpha /\ [][NextAlpha]_vars

\* C16: for every netuid at most one buy is ever executed successfully; in
\* particular changing only STAKE_AMOUNT for an already-bought netuid issues no
\* further buy.
C16_OneBuyPerNetuid ==
    \A i, j \in 1..Len(bought) : bought[i][1] = bought[j][1] => i = j

\* C17: an unstake is executed successfully at most once per combination of
\* UNSTAKE_NETUID and UNSTAKE_AMOUNT, an empty amount being the combination
\* "unstake all" of that netuid.
C17_OneUnstakePerCombination ==
    \A i, j \in 1..Len(sold) : sold[i] = sold[j] => i = j

\* the combination of the current .env has been unstaked once and the last
\* call, seeing it again, did not unstake
C17_Witness ==
    /\ Len(sold) = 1
    /\ last_call.sell = "skipped"
    /\ Combination(get_env_values(env).unstake_netuid,
                   get_env_values(env).unstake_amount) = sold[1]

\* the StakeAdded event of a hotkey whose registrations are looked up
RegisteredHotkeyEvent ==
    StakeEvent("StakeAdded", "5GrwvaEF5z", 1500000000, 3, Absent, PyInt(0))

\* C19: when neither the call of the extrinsic nor the event payload yields a
\* subnet, the hotkey's registrations decide: exactly one registered subnet
\* gives that id, two or more give the list of all of them, none gives
\* "Unknown".
C19_RegistrationsDecide ==
    LET registered == arg_in.uids["5GrwvaEF5z"]
    IN  (/\ fn = "get_current_block_data"
         /\ result # Unset
         /\ arg_in.fetch_ok
         /\ arg_in.block.extrinsics[1].call = LeafTransfer
         /\ arg_in.events = <<RegisteredHotkeyEvent>>)
        => /\ Len(result[2]) = 1
           /\ result[2][1].netuid =
                  IF Len(registered) = 1 THEN PyInt(registered[1])
                  ELSE IF Len(registered) > 1 THEN PyList(registered)
                  ELSE PyStr("Unknown")

(***************************************************************************)
(* MempoolMonitor.display_screen, pending section: lines 825-883.  txs is  *)
(* self.mempool_txs as the sequence of its items in insertion order, each  *)
(* [ext_hex, parsed, time].                                                *)
(***************************************************************************)
\* lines 831-836
PendingMethod(parsed) ==
    IF parsed.type = "nested" THEN parsed.wrapper \o ">" \o parsed.function
    ELSE parsed.function

\* lines 839-844
PendingType(parsed) ==
    IF ContainsAny(Lower(parsed.function),
                   {"remove_stake", "removestake", "unstake", "remove"})
    THEN "UNSTAKE" ELSE "STAKE"

\* line 847: parsed['signer'] or 'Unknown'
PendingAddress(parsed) == IF Truthy(parsed.signer) THEN parsed.signer[2] ELSE "Unknown"

\* lines 851-856
SkippedInPending(parsed) ==
    /\ \/ Contains(Lower(parsed.function), "move_stake")
       \/ Contains(Lower(parsed.function), "transfer_stake")
    /\ IsTuple2(parsed.netuid)
    /\ parsed.netuid[2] = parsed.netuid[3]

\* line 859
PendingKey(parsed) == <<PendingMethod(parsed), PendingAddress(parsed), parsed.netuid>>

\* line 882
PendingAmount(parsed) == IF parsed.amount = None THEN ZeroTao ELSE parsed.amount[2]

\* lines 861-883
PendingMergeOne(merged, tx, time_now) ==
    LET parsed == tx.parsed
        key == PendingKey(parsed)
        age == time_now - tx.time
        seeded ==
            IF \E j \in 1..Len(merged) : merged[j].key = key THEN
                [j \in 1..Len(merged) |->
                    IF merged[j].key = key /\ age > merged[j].age
                    THEN [merged[j] EXCEPT !.age = age] ELSE merged[j]]
            ELSE Append(merged,
                        [key |-> key, type |-> PendingType(parsed),
                         method |-> PendingMethod(parsed),
                         address |-> PendingAddress(parsed),
                         netuid |-> parsed.netuid, amount |-> ZeroTao, age |-> age,
                         nonce |-> parsed.nonce,
                         function_name |-> Lower(parsed.function),
                         parsed_type |-> parsed.type])
    IN  [j \in 1..Len(seeded) |->
            IF seeded[j].key = key
            THEN [seeded[j] EXCEPT !.amount = AddTao(@, PendingAmount(parsed))]
            ELSE seeded[j]]

RECURSIVE PendingMergeFrom(_, _, _, _)
PendingMergeFrom(merged, txs, time_now, i) ==
    IF i > Len(txs) THEN merged
    ELSE IF SkippedInPending(txs[i].parsed)
      THEN PendingMergeFrom(merged, txs, time_now, i + 1)
    ELSE PendingMergeFrom(PendingMergeOne(merged, txs[i], time_now), txs, time_now, i + 1)

\* merged_mempool_txs of display_screen, in insertion order
display_merged_mempool(txs, time_now) == PendingMergeFrom(<<>>, txs, time_now, 1)

(***************************************************************************)
(* The pending view on up to MaxPending tracked extrinsics with distinct   *)
(* fingerprints.                                                           *)
(***************************************************************************)
MaxPending == 3

PendingFingerprints == {"0xa1", "0xa2", "0xa3", "0xa5", "0xc3", "0xd4"}

AddStakeBy(signer, netuid, rao, nonce) ==
    Extrinsic(StakeCall("add_stake", <<Arg("hotkey", PyStr("5GrwvaEF5z")),
                                       Arg("netuid", PyInt(netuid)),
                                       Arg("amount_staked", PyInt(rao))>>),
              PyStr(signer), PyInt(nonce))

\* what decode_scale gives for a pending fingerprint: 0xa1 and 0xa2 are two
\* add_stake extrinsics of one signer on one subnet
PendingDecode(ext_hex) ==
    IF ext_hex = "0xa1" THEN AddStakeBy("5Def", 3, 1500000000, 7)
    ELSE IF ext_hex = "0xa2" THEN AddStakeBy("5Def", 3, 1000000000, 8)
    ELSE IF ext_hex = "0xa3" THEN AddStakeBy("5Def", 4, 1500000000, 9)
    ELSE IF ext_hex = "0xa5" THEN AddStakeBy("5Xyz", 3, 1500000000, 1)
    ELSE IF ext_hex = "0xc3" THEN Decode(ExtBatchRemove)
    ELSE Extrinsic(StakeCall("move_stake", MoveArgs(2, 2)), PyStr("5Def"), PyInt(10))

\* lines 1193-1200: the item monitor() stores for ext_hex first seen at `time`
PendingItem(ext_hex, time) ==
    [ext_hex |-> ext_hex, parsed |-> parse_decoded(PendingDecode(ext_hex))[2],
     time |-> time]

PendingInputs ==
    {[txs |-> [i \in 1..Len(hs) |-> PendingItem(hs[i], i)], time_now |-> MaxPending] :
        hs \in {s \in UNION {[1..m -> PendingFingerprints] : m \in 0..MaxPending} :
                   \A i, j \in 1..Len(s) : s[i] = s[j] => i = j}}

InitPending ==
    /\ Idle
    /\ fn = "display_screen_mempool"
    /\ arg_in \in PendingInputs
    /\ result = Unset

CallDisplayMempool ==
    /\ fn = "display_screen_mempool"
    /\ result = Unset
    /\ result' = Ret(display_merged_mempool(arg_in.txs, arg_in.time_now))
    /\ UNCHANGED <<fn, arg_in, monitorVars, chainVars, alphaVars, trackerVars>>

SpecPending == InitPending /\ [][CallDisplayMempool]_vars

\* the tracked extrinsics the pending view shows
ShownPending == SelectSeq(arg_in.txs, LAMBDA tx : ~SkippedInPending(tx.parsed))

\* C20: the pending view keeps the tracked extrinsics of different fingerprints
\* as separate entries with their own amounts, also when method, signer and
\* subnet are equal.
C20_FingerprintsStaySeparate ==
    (fn = "display_screen_mempool" /\ result # Unset)
    => /\ Len(result[2]) = Len(ShownPending)
       /\ \A j \in 1..Len(result[2]) :
              result[2][j].amount = PendingAmount(ShownPending[j].parsed)

\* C21: the success flag of an entry of the merged block view is TRUE exactly
\* when every candidate merged into it succeeded.
C21_SuccessIsConjunction ==
    (fn = "display_screen" /\ result # Unset)
    => \A j \in 1..Len(result[2]) :
           result[2][j].success
               <=> \A i \in 1..Len(DedupInput) :
                       DedupKey(DedupInput[i]) = DedupKey(result[2][j])
                           => DedupInput[i].success

\* a failed candidate followed by a succeeded one of the same key gave one
\* entry that is not successful
C21_Witness ==
    /\ fn = "display_screen"
    /\ result # Unset
    /\ Len(arg_in.transactions) = 2
    /\ ~arg_in.transactions[1].success
    /\ arg_in.transactions[2].success
    /\ Len(result[2]) = 1
    /\ ~result[2][1].success

\* the call tree reaches a staking-module call through calls that are all
\* wrappers for is_wrapper
RECURSIVE HasStakingCall(_)
HasStakingCall(call) ==
    \/ call.call_module = "SubtensorModule"
    \/ /\ is_wrapper(call)
       /\ \E i \in 1..Len(NestedCalls(call.call_args, {"calls", "call"}, 1)) :
              HasStakingCall(NestedCalls(call.call_args, {"calls", "call"}, 1)[i])

\* the first nested call, in scan order, that reaches a staking call
FirstStakingBranch(call) ==
    LET nested == NestedCalls(call.call_args, {"calls", "call"}, 1)
    IN  nested[MinOf({i \in 1..Len(nested) : HasStakingCall(nested[i])})]

\* the first staking-module call of a call tree that has one
RECURSIVE FirstStakingCall(_)
FirstStakingCall(call) ==
    IF call.call_module = "SubtensorModule" THEN call
    ELSE FirstStakingCall(FirstStakingBranch(call))

\* the function names from the call down to its first staking call, joined
\* by " > "
RECURSIVE UnwrapChain(_)
UnwrapChain(call) ==
    IF call.call_module = "SubtensorModule" THEN call.call_function
    ELSE call.call_function \o " > " \o UnwrapChain(FirstStakingBranch(call))

\* C22: for a staking call nested under one or more wrapper levels the
\* resolver returns the subnet of the first staking call found, the method
\* path of every wrapper function from the outermost to the innermost
\* followed by the staking function, joined by " > ", and is_nested = TRUE.
C22_FullUnwrapChain ==
    (/\ fn = "parse_nested_call"
     /\ result # Unset
     /\ arg_in.call.call_module # "SubtensorModule"
     /\ HasStakingCall(arg_in.call))
    => result[2] = <<extract_netuid_from_call(FirstStakingCall(arg_in.call),
                                              FirstStakingCall(arg_in.call).call_function),
                     PyStr(UnwrapChain(arg_in.call)),
                     TRUE>>

(***************************************************************************)
(* MempoolMonitor._find_nested_stake_operation as parse_extrinsic calls it *)
(* (line 221, depth 0) on chains of wrappers.  An input is [call, levels,  *)
(* stake]: a leaf call under `levels` wrapper calls, 1 <= levels <=        *)
(* MaxWrappers; stake tells whether the leaf is the staking call.          *)
(***************************************************************************)
MaxWrappers == 6

\* the two wrappings: a batch holding the call alone in 'calls', and a
\* proxy holding it in 'call' after another argument
WrapIn(h, c) ==
    IF h = 1
    THEN Call("Utility", "batch", <<Arg("calls", <<"calls", <<c>> >>)>>)
    ELSE Call("Proxy", "proxy", <<Arg("real", PyStr("5Def")), Arg("call", <<"call", c>>)>>)

RECURSIVE WrapChains(_)
WrapChains(levels) ==
    IF levels = 0
    THEN {[call |-> LeafAddStake, levels |-> 0, stake |-> TRUE],
          [call |-> LeafTransfer, levels |-> 0, stake |-> FALSE]}
    ELSE {[call |-> WrapIn(h, x.call), levels |-> levels, stake |-> x.stake] :
             h \in 1..2, x \in WrapChains(levels - 1)}

InitNested ==
    /\ Idle
    /\ fn = "find_nested_stake_operation"
    /\ arg_in \in UNION {WrapChains(k) : k \in 1..MaxWrappers}
    /\ result = Unset

\* line 221
CallFindNested ==
    /\ fn = "find_nested_stake_operation"
    /\ result = Unset
    /\ result' = Ret(find_nested_stake_operation(
                         arg_in.call.call_module, arg_in.call.call_function,
                         arg_in.call.call_args, "5Sig", PyInt(7), 0))
    /\ UNCHANGED <<fn, arg_in, monitorVars, chainVars, alphaVars, trackerVars>>

SpecNested == InitNested /\ [][CallFindNested]_vars

\* C23: the resolution of a chain of wrappers ends, and it finds the staking
\* call exactly when the call is a staking call under at most MaxDepth
\* wrapper levels; under more levels, or without a staking call, it gives
\* None.
C23_ResolvedWithinDepthBound ==
    (fn = "find_nested_stake_operation" /\ result # Unset)
    => IF arg_in.stake /\ arg_in.levels <= MaxDepth
       THEN /\ result[2] # None
            /\ result[2][2].type = "nested"
            /\ result[2][2].function = "add_stake"
            /\ result[2][2].netuid = PyInt(3)
       ELSE result[2] = None

\* a staking call under MaxDepth + 1 wrappers was not resolved
C23_Witness ==
    /\ fn = "find_nested_stake_operation"
    /\ result # Unset
    /\ arg_in.stake
    /\ arg_in.levels = MaxDepth + 1
    /\ result[2] = None

(***************************************************************************)
(* The two subnet extractions on add/remove calls.  An input is            *)
(* [call_function, call_args]: an add_stake / remove_stake spelling with   *)
(* at most MaxCallArgs arguments.                                          *)
(***************************************************************************)
MaxCallArgs == 3

AddRemoveFunctions ==
    {"add_stake", "add_stake_limit", "remove_stake", "remove_stake_full_limit"}

AddRemoveArgs ==
    {Arg("hotkey", PyStr("5GrwvaEF5z")),
     Arg("netuid", PyInt(3)),
     Arg("amount_unstaked", PyInt(500000000)),
     Arg("netuid", PyInt(5)),
     Arg("origin_netuid", PyInt(1)),
     Arg("destination_netuid", PyInt(2))}

AddRemoveInputs ==
    {[call_function |-> f, call_args |-> a] :
        f \in AddRemoveFunctions,
        a \in UNION {[1..n -> AddRemoveArgs] : n \in 0..MaxCallArgs}}

InitAddRemove ==
    /\ Idle
    /\ fn \in {"_extract_netuid", "_extract_netuid_from_call"}
    /\ arg_in \in AddRemoveInputs
    /\ result = Unset

SpecAddRemove == InitAddRemove /\ [][NextNetuid]_vars

\* C24: the subnet of an add/remove operation is never an (origin,
\* destination) pair; only move/swap/transfer operations carry one.
C24_PairOnlyForMoves ==
    (/\ fn \in {"_extract_netuid", "_extract_netuid_from_call"}
     /\ result # Unset
     /\ arg_in.call_function \in AddRemoveFunctions)
    => result[2][1] # "tuple"

\* the position of monitor() is past the pending-list fetch, the
\* classification of the new fingerprints and the reconciliation of this
\* cycle (lines 1189-1205)
MempoolStepDone == pc \in {"display", "sleep"}

\* C25: in every poll cycle the pending list is fetched, classified and
\* reconciled first, and only then is the head block fetched and classified:
\* the block step never runs before the mempool fetch of the same cycle.
C25_BlockStepAfterMempoolFetch ==
    [][(last_block' # last_block \/ last_block_data' # last_block_data)
           => MempoolStepDone]_vars

\* C26: the step of lines 1188-1205 leaves tracked only fingerprints of the
\* pending list it fetched, each classified as a stake operation (never one
\* whose classification is None); a fingerprint added by the step carries the
\* time of this cycle, and one tracked before the step and still pending keeps
\* its entry: it is not classified again and its first-seen time is unchanged.
C26_TrackedArePendingStakes ==
    [][(pc = "pending" /\ pc' = "display")
           => /\ DOMAIN mempool_txs' \subseteq pending_fetched'
              /\ \A h \in DOMAIN mempool_txs' :
                     /\ parse_extrinsic(h) # None
                     /\ mempool_txs'[h].parsed = parse_extrinsic(h)[2]
                     /\ h \in DOMAIN mempool_txs => mempool_txs'[h] = mempool_txs[h]
                     /\ h \notin DOMAIN mempool_txs => mempool_txs'[h].time = now
              /\ \A h \in pending_fetched' :
                     parse_extrinsic(h) = None => h \notin DOMAIN mempool_txs']_vars

\* after the fetch of a later cycle an entry first seen in an earlier cycle
\* is still tracked with its old time, and a pending transfer is not tracked
C26_Witness ==
    /\ pc = "display"
    /\ ExtTransfer \in pending_fetched
    /\ ExtTransfer \notin DOMAIN mempool_txs
    /\ ExtAddStake \in DOMAIN mempool_txs
    /\ ExtAddStake \in DOMAIN cycle_start_txs
    /\ mempool_txs[ExtAddStake].time < now

(***************************************************************************)
(* MempoolMonitor._extract_netuid on move/swap/transfer calls whose        *)
(* arguments carry no origin-side or destination-side name.  An input is   *)
(* [call_function, call_args] with at most MaxUnnamedArgs arguments.       *)
(***************************************************************************)
MaxUnnamedArgs == 4

UnnamedFunctions == {"move_stake", "swap_stake_limit", "transfer_stake"}

UnnamedArgs ==
    {Arg("hotkey", PyStr("5GrwvaEF5z")),
     Arg("netuid", PyInt(5)),
     Arg("subnet_netuid", PyInt(6)),
     Arg("netuid_id", PyInt(7)),
     Arg("alpha_amount", PyInt(500000000)),
     Arg("index", PyInt(9))}

UnnamedInputs ==
    {[call_function |-> f, call_args |-> a] :
        f \in UnnamedFunctions,
        a \in UNION {[1..n -> UnnamedArgs] : n \in 0..MaxUnnamedArgs}}

InitUnnamed ==
    /\ Idle
    /\ fn = "_extract_netuid"
    /\ arg_in \in UnnamedInputs
    /\ result = Unset

SpecUnnamed == InitUnnamed /\ [][CallExtractNetuid]_vars

\* the arguments whose name contains "netuid", in argument order
NetuidNamed(call_args) ==
    SelectSeq(call_args, LAMBDA a : Contains(Lower(a.name), "netuid"))

\* what the first two raw argument values decide (lines 365-372), and the
\* regular extraction when they decide nothing
PositionalDecision(call_args) ==
    LET val0 == extract_value_from_arg(call_args[1])
        val1 == extract_value_from_arg(call_args[2])
    IN  IF Len(call_args) >= 2 /\ InRange(val0, NetuidLimit) /\ InRange(val1, NetuidLimit)
        THEN PyTuple(val0[2], val1[2])
        ELSE IF Len(call_args) >= 2 /\ InRange(val0, NetuidLimit) THEN val0
        ELSE extract_netuid_regular(call_args)

\* C27: without a recognised origin-side or destination-side name, exactly
\* two arguments named *netuid* give the pair of their values in argument
\* order and exactly one gives its value; three or more give nothing by
\* name, and the first two raw argument values decide.
C27_ExactlyTwoGivePair ==
    (fn = "_extract_netuid" /\ result # Unset /\ Len(arg_in.call_args) > 0
        /\ arg_in.call_function \in UnnamedFunctions)
    => LET named == NetuidNamed(arg_in.call_args)
       IN  result[2] =
               IF Len(named) = 2 THEN PyTuple(named[1].value[2], named[2].value[2])
               ELSE IF Len(named) = 1 THEN named[1].value
               ELSE PositionalDecision(arg_in.call_args)

\* C30: executed_stakes and executed_unstakes grow only in a call whose buy,
\* resp. unstake, returned success; a call whose unstake failed leaves
\* executed_unstakes as it was, a call of process_changes whose buy failed
\* leaves previous_stake_netuid and executed_stakes as they were, and a
\* further call on the same .env values attempts that buy again.
C30_FailureNotRecorded ==
    [][/\ executed_stakes' # executed_stakes => last_call'.buy = "ok"
       /\ executed_unstakes' # executed_unstakes => last_call'.sell = "ok"
       /\ last_call'.sell = "failed" => executed_unstakes' = executed_unstakes
       /\ (env_changed /\ ~env_changed' /\ last_call'.buy = "failed")
            => /\ previous_stake_netuid' = previous_stake_netuid
               /\ executed_stakes' = executed_stakes
               /\ StakeStep(previous_stake_netuid', executed_stakes',
                            get_env_values(env').stake_netuid,
                            get_env_values(env').stake_amount, FALSE).buy = "failed"]_vars

\* the buy and the unstake of the last call both failed and nothing was
\* recorded
C30_Witness ==
    /\ last_call = [buy |-> "failed", sell |-> "failed"]
    /\ ~env_changed
    /\ previous_stake_netuid = None
    /\ executed_stakes = {}
    /\ executed_unstakes = {}

(***************************************************************************)
(* StakeTracker and main of index.py.  Amounts are in 1/10000 TAO.  Every  *)
(* awaited call on the subtensor is one step whose outcome is an input;    *)
(* the comparisons of prices and profits with the thresholds (lines        *)
(* 237-293, 335-346) are the input `decide`.                               *)
(***************************************************************************)
\* MIN_STAKE_AMOUNT of index.py, 0.0005 TAO
TrackerMinStake == 5

\* STAKE_AMOUNT_TAO, 1 TAO by default
STAKE_AMOUNT_TAO == 10000

\* line 443
max_retries == 3

\* line 28, the default
SAFE_STAKING == TRUE

\* what get_current_stake returns: None, dust, or a stake
StakeReads == {None, PyFloat(3), PyFloat(40), PyFloat(100)}

\* what the price query gives: a price, or None when it raises
PriceReads == {None, PyFloat(1), PyFloat(2)}

\* the exceptions by the words of their message (lines 478, 583, 590)
ErrorKinds == {"outdated", "tolerance", "error"}

\* what the price query of unstake_all gives: a price, or an exception
PriceOutcomes == (PriceReads \ {None}) \cup {<<"raise", k>> : k \in ErrorKinds}

trackerFields == <<validator_hotkey, original_stake_tao, entry_price, has_stake>>
unstakeLocals == <<attempt, unstake_result, submissions>>
otherVars == <<monitorVars, chainVars, fnVars, alphaVars>>

\* lines 783-784, 811-812, 822-823 without the sys.exit
AfterStartupStakeGoesOn(ret) == "loop"

\* lines 783-784, 811-812, 822-823: sys.exit unless the stake succeeded
AfterStartupStake(ret) == IF ret = "True" THEN "loop" ELSE "exited"

\* stake_initial_amount returns ret to its caller (main, or check_and_trade
\* and through it monitor_continuously, line 679)
StakeReturns(ret) ==
    /\ last_return' = [op |-> "stake_initial_amount", ret |-> ret]
    /\ tracker_pc' = IF caller = "loop" THEN "loop" ELSE AfterStartupStake(ret)
    /\ UNCHANGED caller

\* an exception leaves stake_initial_amount: inside the try of main it is
\* caught at line 813 and a new tracker stakes again (lines 816-823);
\* anywhere else it ends the program
StakeRaises ==
    /\ last_return' = [op |-> "stake_initial_amount", ret |-> "raised"]
    /\ tracker_pc' = IF caller = "main" THEN "stake_submit" ELSE "exited"
    /\ caller' = IF caller = "main" THEN "main_except" ELSE caller

\* unstake_all returns ret; check_and_trade returns it to the loop
UnstakeReturns(ret) ==
    /\ last_return' = [op |-> "unstake_all", ret |-> ret]
    /\ tracker_pc' = "loop"

\* main, lines 750-773 and 787-801: an existing stake is adopted
MainExisting(stake, price) ==
    /\ fn = "check_and_trade"
    /\ tracker_pc = "main"
    /\ stake[2] >= TrackerMinStake
    /\ validator_hotkey' = PyStr("5Val")
    /\ original_stake_tao' = stake
    /\ has_stake' = TRUE
    /\ entry_price' = price
    /\ tracker_pc' = "loop"
    /\ UNCHANGED <<caller, unstakeLocals, last_return, otherVars>>

\* main, lines 777-784 and 805-812: a new tracker stakes; lines 813-823 when
\* the query of the existing stakes raised (in_try = FALSE)
MainNew(hotkey, in_try) ==
    /\ fn = "check_and_trade"
    /\ tracker_pc = "main"
    /\ STAKE_AMOUNT_TAO >= TrackerMinStake
    /\ validator_hotkey' = hotkey
    /\ tracker_pc' = "stake_submit"
    /\ caller' = IF in_try THEN "main" ELSE "main_except"
    /\ UNCHANGED <<original_stake_tao, entry_price, has_stake, unstakeLocals,
                   last_return, otherVars>>

\* stake_initial_amount, lines 80-135 and 163-174; top: the top validator of
\* the metagraph (None: none found, or the query raised); outcome: what
\* add_stake did
StakeSubmit(top, outcome) ==
    /\ fn = "check_and_trade"
    /\ tracker_pc = "stake_submit"
    /\ IF STAKE_AMOUNT_TAO < TrackerMinStake \/ (validator_hotkey = None /\ top = None)
       THEN StakeRaises /\ UNCHANGED validator_hotkey
       ELSE /\ validator_hotkey' = IF validator_hotkey = None THEN top
                                   ELSE validator_hotkey
            /\ IF outcome = "ok"
               THEN tracker_pc' = "stake_query" /\ UNCHANGED <<caller, last_return>>
               ELSE StakeReturns("False")
    /\ UNCHANGED <<original_stake_tao, entry_price, has_stake, unstakeLocals, otherVars>>

\* lines 139-154
StakeQuery(stake) ==
    /\ fn = "check_and_trade"
    /\ tracker_pc = "stake_query"
    /\ IF stake = None
       THEN StakeReturns("False") /\ UNCHANGED <<original_stake_tao, has_stake>>
       ELSE /\ original_stake_tao' = stake
            /\ has_stake' = TRUE
            /\ tracker_pc' = "stake_price"
            /\ UNCHANGED <<caller, last_return>>
    /\ UNCHANGED <<validator_hotkey, entry_price, unstakeLocals, otherVars>>

\* lines 156-162, and 167-174 when the query raises
StakePrice(price) ==
    /\ fn = "check_and_trade"
    /\ tracker_pc = "stake_price"
    /\ IF price = None
       THEN StakeReturns("False") /\ UNCHANGED entry_price
       ELSE entry_price' = price /\ StakeReturns("True")
    /\ UNCHANGED <<validator_hotkey, original_stake_tao, has_stake, unstakeLocals,
                   otherVars>>

\* check_and_trade, lines 207-353: "return" (False), "unstake" or "stake"
TradeDecision(price, stake, decide) ==
    IF price = None THEN "return"
    ELSE IF has_stake
      THEN (IF entry_price = None \/ original_stake_tao = None THEN "return"
            ELSE IF stake = None THEN "return"
            ELSE IF decide THEN "unstake" ELSE "return")
    ELSE IF original_stake_tao = None \/ entry_price = None THEN "stake"
    ELSE IF decide THEN "stake" ELSE "return"

\* monitor_continuously, line 679
CheckAndTrade(price, stake, decide) ==
    /\ fn = "check_and_trade"
    /\ tracker_pc = "loop"
    /\ LET next == TradeDecision(price, stake, decide)
       IN  /\ tracker_pc' = IF next = "unstake" THEN "unstake_check"
                            ELSE IF next = "stake" THEN "stake_submit"
                            ELSE "loop"
           /\ last_return' = IF next = "return"
                             THEN [op |-> "check_and_trade", ret |-> "False"]
                             ELSE last_return
    /\ caller' = "loop"
    /\ UNCHANGED <<trackerFields, unstakeLocals, otherVars>>

\* unstake_all, lines 357-445; ready: the stake and the alpha amount were
\* read, and the stake is not below the minimum
UnstakeCheck(ready) ==
    /\ fn = "check_and_trade"
    /\ tracker_pc = "unstake_check"
    /\ IF validator_hotkey = None \/ ~ready
       THEN UnstakeReturns("False") /\ UNCHANGED unstakeLocals
       ELSE /\ tracker_pc' = "unstake_submit"
            /\ attempt' = 0
            /\ unstake_result' = FALSE
            /\ submissions' = <<>>
            /\ UNCHANGED last_return
    /\ UNCHANGED <<trackerFields, caller, otherVars>>

\* line 447 with one more turn of the loop
in_retry_range_wide(n) == n < max_retries + 1

\* line 447: for attempt in range(max_retries)
in_retry_range(n) == n < max_retries

\* lines 579-662: the handler of the outer try, by the kind of the exception
OuterExcept(kind) ==
    IF kind = "tolerance" /\ SAFE_STAKING
    THEN tracker_pc' = "unstake_small" /\ UNCHANGED last_return
    ELSE UnstakeReturns("False")

\* the next turn of the loop, or its end when the range is exhausted
NextAttempt ==
    /\ attempt' = attempt + 1
    /\ tracker_pc' = IF in_retry_range(attempt + 1) THEN "unstake_submit"
                     ELSE "unstake_done"
    /\ UNCHANGED last_return

\* lines 447-499: one turn of the retry loop; outcome: what subtensor.unstake
\* did ("ok", "failed", or the kind of the exception); refresh: what the
\* get_stake of line 467 did ("ok" or the kind of the exception)
UnstakeSubmit(outcome, refresh) ==
    /\ fn = "check_and_trade"
    /\ tracker_pc = "unstake_submit"
    /\ submissions' = Append(submissions, outcome)
    /\ unstake_result' = (outcome = "ok")
    /\ LET raised == IF outcome = "failed" /\ attempt < max_retries - 1 THEN refresh
                     ELSE outcome
       IN  IF outcome = "ok"
           THEN tracker_pc' = "unstake_done" /\ UNCHANGED <<attempt, last_return>>
           ELSE IF raised \in {"ok", "failed"} THEN NextAttempt
           ELSE IF raised = "outdated" /\ attempt < max_retries - 1 THEN NextAttempt
           ELSE OuterExcept(raised) /\ UNCHANGED attempt
    /\ UNCHANGED <<trackerFields, caller, otherVars>>

\* lines 501-577; remaining: what get_current_stake gives after the unstake;
\* price: the price, or the exception of the query
UnstakeDone(remaining, price) ==
    /\ fn = "check_and_trade"
    /\ tracker_pc = "unstake_done"
    /\ IF ~unstake_result
       THEN UnstakeReturns("False") /\ UNCHANGED trackerFields
       ELSE IF original_stake_tao = None
         THEN OuterExcept("error") /\ UNCHANGED trackerFields
       ELSE LET partial == remaining # None /\ remaining[2] > 0
                           /\ remaining[2] >= TrackerMinStake
            IN  /\ original_stake_tao' = IF partial THEN remaining
                                         ELSE original_stake_tao
                /\ IF price[1] = "raise"
                   THEN OuterExcept(price[2]) /\ UNCHANGED <<entry_price, has_stake>>
                   ELSE /\ entry_price' = price
                        /\ has_stake' = (partial /\ has_stake)
                        /\ UnstakeReturns("True")
                /\ UNCHANGED validator_hotkey
    /\ UNCHANGED <<caller, unstakeLocals, otherVars>>

\* lines 600-659: the unstake of half the stake after a price-limit error
UnstakeSmall(alpha_ok, outcome, remaining, price) ==
    /\ fn = "check_and_trade"
    /\ tracker_pc = "unstake_small"
    /\ IF alpha_ok /\ outcome = "ok" /\ remaining # None /\ remaining[2] > 0
       THEN /\ original_stake_tao' = remaining
            /\ IF price[1] = "raise"
               THEN UnstakeReturns("False") /\ UNCHANGED entry_price
               ELSE entry_price' = price /\ UnstakeReturns("True")
       ELSE UnstakeReturns("False") /\ UNCHANGED <<original_stake_tao, entry_price>>
    /\ UNCHANGED <<validator_hotkey, has_stake, caller, unstakeLocals, otherVars>>

InitTracker ==
    /\ MonitorInit /\ ChainInit /\ AlphaInit /\ TrackerInit
    /\ fn = "check_and_trade"
    /\ arg_in = None
    /\ result = Unset

UnstakeAllStep ==
    \/ \E ready \in BOOLEAN : UnstakeCheck(ready)
    \/ \E outcome \in {"ok", "failed"} \cup ErrorKinds :
           \E refresh \in {"ok"} \cup ErrorKinds : UnstakeSubmit(outcome, refresh)
    \/ \E remaining \in StakeReads : \E price \in PriceOutcomes :
           UnstakeDone(remaining, price)
    \/ \E alpha_ok \in BOOLEAN : \E outcome \in {"ok", "failed", "error"} :
           \E remaining \in StakeReads : \E price \in PriceOutcomes :
               UnstakeSmall(alpha_ok, outcome, remaining, price)

NextTracker ==
    \/ \E stake \in StakeReads \ {None} : \E price \in PriceReads \ {None} :
           MainExisting(stake, price)
    \/ \E hotkey \in {None, PyStr("5Val")} : \E in_try \in BOOLEAN : MainNew(hotkey, in_try)
    \/ \E top \in {None, PyStr("5Top")} : \E outcome \in {"ok", "failed", "error"} :
           StakeSubmit(top, outcome)
    \/ \E stake \in StakeReads : StakeQuery(stake)
    \/ \E price \in PriceReads : StakePrice(price)
    \/ \E price \in PriceReads : \E stake \in StakeReads : \E decide \in BOOLEAN :
           CheckAndTrade(price, stake, decide)
    \/ UnstakeAllStep

\* the event loop resumes unstake_all when the call it awaits has finished
SpecTracker == InitTracker /\ [][NextTracker]_vars /\ WF_vars(UnstakeAllStep)

\* C28: between the operations of the trading loop, has_stake implies that
\* entry_price and original_stake_tao are both set, also after a
\* stake_initial_amount whose price query failed once the stake had
\* succeeded.
C28_StakeHasEntryPrice ==
    (tracker_pc = "loop" /\ has_stake)
    => (entry_price # None /\ original_stake_tao # None)

\* the trading loop goes on after a stake_initial_amount that staked,
\* recorded the stake and returned False because its price query failed
C28_Witness ==
    /\ tracker_pc = "loop"
    /\ has_stake
    /\ last_return = [op |-> "stake_initial_amount", ret |-> "False"]

\* unstake_all is running
InUnstakeAll ==
    tracker_pc \in {"unstake_check", "unstake_submit", "unstake_done", "unstake_small"}

\* C29: the retry loop of one unstake_all submits at most max_retries
\* unstake requests, each but the last a failed result or an outdated /
\* invalid-transaction error, so none after a successful one; unstake_all
\* always ends, by returning True or False, never by an exception; and
\* has_stake becomes False only once a submission has succeeded.
C29_BoundedRetries ==
    /\ [](/\ Len(submissions) <= max_retries
          /\ \A i \in 1..(Len(submissions) - 1) : submissions[i] \in {"failed", "outdated"}
          /\ last_return.op = "unstake_all" => last_return.ret \in {"True", "False"}
          /\ tracker_pc = "exited" => last_return.op = "stake_initial_amount")
    /\ [][(has_stake /\ ~has_stake')
              => (unstake_result /\ submissions[Len(submissions)] = "ok"
                  /\ last_return'.op = "unstake_all")]_vars
    /\ (InUnstakeAll ~> ~InUnstakeAll)

\* an unstake_all returned True after three requests, the third successful,
\* and reset has_stake
C29_Witness ==
    /\ tracker_pc = "loop"
    /\ last_return = [op |-> "unstake_all", ret |-> "True"]
    /\ submissions = <<"failed", "outdated", "ok">>
    /\ ~has_stake

=============================================================================
